---------------------------- MODULE Spec2Model ----------------------------
(***************************************************************************)
(* Per-file RAG index manager (rag.py) and its HTTP front end (server.py). *)
(*                                                                         *)
(* File names and identifiers are sequences of one-character strings.      *)
(* Three non-ASCII code points are written by their code point name:       *)
(*   "U00E9"  e with acute accent  (NFKD: "e" + combining accent)          *)
(*   "U4E2D"  a CJK ideograph      (NFKD: itself, dropped by ascii/ignore) *)
(*   "U2026"  horizontal ellipsis  (NFKD: three full stops)                *)
(***************************************************************************)
EXTENDS Integers, Sequences, FiniteSets, TLC

(***************************************************************************)
(* Characters                                                              *)
(***************************************************************************)
LowerLetters ==
    {"a","b","c","d","e","f","g","h","i","j","k","l","m",
     "n","o","p","q","r","s","t","u","v","w","x","y","z"}

UpperLetters ==
    {"A","B","C","D","E","F","G","H","I","J","K","L","M",
     "N","O","P","Q","R","S","T","U","V","W","X","Y","Z"}

Digits == {"0","1","2","3","4","5","6","7","8","9"}

\* [A-Za-z0-9]
IsAlnum(c) == c \in LowerLetters \cup UpperLetters \cup Digits

\* [A-Za-z0-9._-]
IsSafeChar(c) == IsAlnum(c) \/ c \in {".", "_", "-"}

\* str.lower() on one character (only ASCII letters are modelled with case)
LowerChar(c) ==
    CASE c = "A" -> "a" [] c = "B" -> "b" [] c = "C" -> "c" [] c = "D" -> "d"
      [] c = "E" -> "e" [] c = "F" -> "f" [] c = "G" -> "g" [] c = "H" -> "h"
      [] c = "I" -> "i" [] c = "J" -> "j" [] c = "K" -> "k" [] c = "L" -> "l"
      [] c = "M" -> "m" [] c = "N" -> "n" [] c = "O" -> "o" [] c = "P" -> "p"
      [] c = "Q" -> "q" [] c = "R" -> "r" [] c = "S" -> "s" [] c = "T" -> "t"
      [] c = "U" -> "u" [] c = "V" -> "v" [] c = "W" -> "w" [] c = "X" -> "x"
      [] c = "Y" -> "y" [] c = "Z" -> "z" [] OTHER -> c

Lower(s) == [i \in 1..Len(s) |-> LowerChar(s[i])]

\* unicodedata.normalize('NFKD', c).encode('ascii', 'ignore').decode('ascii')
\* for one character: ASCII stays, a decomposable letter keeps its ASCII base,
\* the ellipsis expands, anything else non-ASCII is dropped.
AsciiFoldChar(c) ==
    CASE c = "U00E9" -> <<"e">>
      [] c = "U4E2D" -> <<>>
      [] c = "U2026" -> <<".", ".", ".">>
      [] OTHER -> <<c>>

(***************************************************************************)
(* Sequence helpers                                                        *)
(***************************************************************************)
InSeq(x, s) == \E i \in 1..Len(s) : s[i] = x

EndsWith(s, suf) ==
    /\ Len(s) >= Len(suf)
    /\ SubSeq(s, Len(s) - Len(suf) + 1, Len(s)) = suf

\* s[:n]
Take(s, n) == SubSeq(s, 1, IF Len(s) < n THEN Len(s) ELSE n)

\* s[n:] with 0-based n >= 0
Drop(s, n) == IF n >= Len(s) THEN <<>> ELSE SubSeq(s, n + 1, Len(s))

\* 1-based position of the last c in s, 0 when s holds none
LastIndexOf(s, c) ==
    LET idx == {i \in 1..Len(s) : s[i] = c}
    IN  IF idx = {} THEN 0 ELSE CHOOSE i \in idx : \A j \in idx : j <= i

(***************************************************************************)
(* _safe_stem                                                              *)
(***************************************************************************)
\* the length cap of the stem, safe[:100]
MaxStemLen == 100

\* the minimum length below which the stem falls back to "doc"
MinStemLen == 3

\* os.path.basename: the part after the last "/"
Basename(p) == Drop(p, LastIndexOf(p, "/"))

\* os.path.splitext(p)[0] for a p without separators: cut at the last dot,
\* unless only dots precede it
SplitextRoot(p) ==
    LET d == LastIndexOf(p, ".")
    IN  IF d > 0 /\ \E i \in 1..(d - 1) : p[i] # "."
        THEN SubSeq(p, 1, d - 1)
        ELSE p

\* the fold of s[lo..hi], by halves
RECURSIVE AsciiFoldRange(_, _, _)
AsciiFoldRange(s, lo, hi) ==
    IF lo > hi THEN <<>>
    ELSE IF lo = hi THEN AsciiFoldChar(s[lo])
    ELSE LET mid == (lo + hi) \div 2
         IN  AsciiFoldRange(s, lo, mid) \o AsciiFoldRange(s, mid + 1, hi)

AsciiFold(s) == AsciiFoldRange(s, 1, Len(s))

\* re.sub(r"[^A-Za-z0-9._-]", "_", s)
ReplaceUnsafe(s) == [i \in 1..Len(s) |-> IF IsSafeChar(s[i]) THEN s[i] ELSE "_"]

\* re.sub(r"^[^A-Za-z0-9]+", "", s)
TrimLeft(s) ==
    LET idx == {i \in 1..Len(s) : IsAlnum(s[i])}
    IN  IF idx = {} THEN <<>>
        ELSE SubSeq(s, CHOOSE i \in idx : \A j \in idx : i <= j, Len(s))

\* re.sub(r"[^A-Za-z0-9]+$", "", s)
TrimRight(s) ==
    LET idx == {i \in 1..Len(s) : IsAlnum(s[i])}
    IN  IF idx = {} THEN <<>>
        ELSE SubSeq(s, 1, CHOOSE i \in idx : \A j \in idx : j <= i)

\* re.sub(r"_{2,}", "_", s) on s[lo..hi]: of every run of underscores one is
\* kept (the last), by halves
RECURSIVE CollapseRange(_, _, _)
CollapseRange(s, lo, hi) ==
    IF lo > hi THEN <<>>
    ELSE IF lo = hi
         THEN IF s[lo] = "_" /\ lo < Len(s) /\ s[lo + 1] = "_" THEN <<>> ELSE <<s[lo]>>
    ELSE LET mid == (lo + hi) \div 2
         IN  CollapseRange(s, lo, mid) \o CollapseRange(s, mid + 1, hi)

CollapseUnderscores(s) == CollapseRange(s, 1, Len(s))

\* the fallback left out
StemFallbackNone(safe) == safe

\* the fallback of lines 113-114
StemFallback(safe) == IF safe = <<>> \/ Len(safe) < MinStemLen THEN <<"d","o","c">> ELSE safe

\* the cut of line 115
StemCut(safe) == Take(safe, MaxStemLen)

\* lines 103-112: the name as cleaned, before the fallback and the cut
StemCleaned(filename) ==
    LET base == SplitextRoot(Basename(filename))
        norm == AsciiFold(base)
        safe1 == ReplaceUnsafe(norm)
        safe2 == TrimLeft(safe1)
        safe3 == TrimRight(safe2)
    IN  CollapseUnderscores(safe3)

SafeStem(filename) == StemCut(StemFallback(StemCleaned(filename)))

(***************************************************************************)
(* The documents directory                                                 *)
(***************************************************************************)
\* Two supported names with the same stem, a name holding ":" (a download
\* side-car, filtered) and a name with an unsupported extension.
F1 == <<"a", " ", "b", ".", "t", "x", "t">>

F2 == <<"a", "_", "b", ".", "t", "x", "t">>

Art == <<"a", ":", "b", ".", "t", "x", "t">>

Exe == <<"a", "_", "b", ".", "e", "x", "e">>

\* the names that come and go while the program runs
DynNames == {F1, F2}

AllNames == {F1, F2, Art, Exe}

\* the characters in code point order, for sorted()
CharOrder ==
    <<" ", "-", ".", "/",
      "0", "1", "2", "3", "4", "5", "6", "7", "8", "9", ":",
      "A", "B", "C", "D", "E", "F", "G", "H", "I", "J", "K", "L", "M",
      "N", "O", "P", "Q", "R", "S", "T", "U", "V", "W", "X", "Y", "Z", "_",
      "a", "b", "c", "d", "e", "f", "g", "h", "i", "j", "k", "l", "m",
      "n", "o", "p", "q", "r", "s", "t", "u", "v", "w", "x", "y", "z",
      "U00E9", "U2026", "U4E2D">>

Ord(c) == CHOOSE i \in 1..Len(CharOrder) : CharOrder[i] = c

\* a < b on strings
StrLess(a, b) ==
    \/ /\ Len(a) < Len(b)
       /\ \A i \in 1..Len(a) : a[i] = b[i]
    \/ \E k \in 1..Len(a) :
          /\ k <= Len(b)
          /\ \A i \in 1..(k - 1) : a[i] = b[i]
          /\ Ord(a[k]) < Ord(b[k])

\* sorted(S) for a set of distinct strings
RECURSIVE SortNames(_)
SortNames(S) ==
    IF S = {} THEN <<>>
    ELSE LET m == CHOOSE x \in S : \A y \in S \ {x} : StrLess(x, y)
         IN  <<m>> \o SortNames(S \ {m})

ZoneIdentifier == <<"Z","o","n","e",".","I","d","e","n","t","i","f","i","e","r">>

\* a filter that compares the extension as it is written
IsSupportedNameExact(file) ==
    /\ ~InSeq(":", file)
    /\ ~EndsWith(file, ZoneIdentifier)
    /\ \/ EndsWith(file, <<".", "t", "x", "t">>)
       \/ EndsWith(file, <<".", "p", "d", "f">>)
       \/ EndsWith(file, <<".", "m", "d">>)

\* the filter of _supported_files: lines 56 and 59-60
IsSupportedName(file) ==
    /\ ~InSeq(":", file)
    /\ ~EndsWith(file, ZoneIdentifier)
    /\ \/ EndsWith(Lower(file), <<".", "t", "x", "t">>)
       \/ EndsWith(Lower(file), <<".", "p", "d", "f">>)
       \/ EndsWith(Lower(file), <<".", "m", "d">>)

\* _supported_files over the entries os.listdir returns
SupportedFiles(entries) == SortNames({f \in entries : IsSupportedName(f)})

(***************************************************************************)
(* Manifests                                                               *)
(***************************************************************************)
\* st_mtime is a float; the model counts it in ticks of 1/TicksPerSecond s
TicksPerSecond == 2

\* int(st.st_mtime)
WholeSeconds(mtime) == mtime \div TicksPerSecond

NoFile == [present |-> FALSE, size |-> 0, mtime |-> 0]

\* _compute_manifest(files) against the directory state d: a file that os.stat
\* does not find is left out
RECURSIVE ComputeManifest(_, _)
ComputeManifest(files, d) ==
    IF files = <<>> THEN <<>>
    ELSE LET f == Head(files)
             rest == ComputeManifest(Tail(files), d)
         IN  IF d[f].present
             THEN <<[name |-> f, size |-> d[f].size,
                     mtime |-> WholeSeconds(d[f].mtime)]>> \o rest
             ELSE rest

\* sorted(a, key=name): a stable insertion sort
RECURSIVE InsertByName(_, _)
InsertByName(e, s) ==
    IF s = <<>> THEN <<e>>
    ELSE IF StrLess(e.name, Head(s).name) THEN <<e>> \o s
    ELSE <<Head(s)>> \o InsertByName(e, Tail(s))

\* a comparison that leaves the lists in the order given
SortByNameNot(a) == a

RECURSIVE SortByName(_)
SortByName(a) ==
    IF a = <<>> THEN <<>>
    ELSE InsertByName(a[Len(a)], SortByName(SubSeq(a, 1, Len(a) - 1)))

\* _manifests_equal
ManifestsEqual(a, b) ==
    IF Len(a) # Len(b) THEN FALSE
    ELSE SortByName(a) = SortByName(b)

(***************************************************************************)
(* Storage identifiers                                                     *)
(***************************************************************************)
\* a name whose stem is the identifier F1 gets when it collides with F2
Clash ==
    <<"a", "_", "b", "-", "1", "9", "d", "7", "0", "3", "a", "b", ".", "t", "x", "t">>

\* two names with the same stem of MaxStemLen characters
LongTxt == [i \in 1..MaxStemLen |-> "a"] \o <<".", "t", "x", "t">>

LongMd == [i \in 1..MaxStemLen |-> "a"] \o <<".", "m", "d">>

\* a third name with the stem of F1 and F2
F3 == <<"a", "_", "_", "b", ".", "t", "x", "t">>

\* a name whose cleaned form has a full stop as its last character before the cut
DotCut == [i \in 1..(MaxStemLen - 1) |-> "a"] \o <<".", "b", ".", "t", "x", "t">>

\* hashlib.sha1(file.encode('utf-8')).hexdigest()[:8] of the modelled names
ShortHash(file) ==
    CASE file = F1 -> <<"1", "9", "d", "7", "0", "3", "a", "b">>
      [] file = Clash -> <<"c", "9", "0", "f", "2", "b", "a", "2">>
      [] file = LongTxt -> <<"0", "c", "f", "1", "1", "3", "c", "8">>
      [] file = LongMd -> <<"8", "1", "6", "8", "4", "b", "6", "1">>
      [] file = DotCut -> <<"2", "a", "3", "f", "6", "c", "a", "a">>
      [] file = F2 -> <<"9", "8", "5", "7", "1", "7", "f", "0">>
      [] file = Art -> <<"4", "0", "e", "9", "3", "8", "7", "4">>
      [] file = Exe -> <<"3", "e", "d", "3", "2", "e", "1", "a">>
      [] file = F3 -> <<"7", "8", "7", "0", "a", "1", "4", "c">>

\* the stem alone, whatever the other files are
StorageIdPlain(file, filesAll) == SafeStem(file)

\* lines 180-189: the stem, with "-" and the short hash when another
\* supported file has the same stem
StorageId(file, filesAll) ==
    LET safe == SafeStem(file)
        collisions == SelectSeq(filesAll, LAMBDA f : SafeStem(f) = safe)
    IN  IF Len(collisions) > 1 THEN safe \o <<"-">> \o ShortHash(file) ELSE safe

\* every directory name the modelled files can get
DbIdents ==
    UNION {{SafeStem(f), SafeStem(f) \o <<"-">> \o ShortHash(f)} : f \in AllNames}

(***************************************************************************)
(* State                                                                   *)
(***************************************************************************)
\* bounds of the model
MaxEvents == 1

MaxReqs == 2

MaxTick == 2

MaxSize == 2

\* the request threads of the server's thread pool
Threads == {"w1", "w2"}

NoThread == "none"

VARIABLES
    docs,       \* DOCS_DIR: name -> [present, size, mtime]
    events,     \* number of changes made to DOCS_DIR from outside so far
    db,         \* DB_DIR: identifier -> index directory
    catDb,      \* the index directory of the category
    lock,       \* server.lock: the thread holding it, or NoThread
    pc,         \* thread -> its position in the handler
    req,        \* thread -> the request it serves
    loc,        \* thread -> the locals of build_or_load_db_for_file
    resp,       \* thread -> HTTP status of the response (0: none yet)
    gh,         \* thread -> what the running call has done and seen (history)
    lastCall,   \* the last build_or_load_db_for_file call that returned (history)
    reqs        \* number of requests started so far

VARIABLES fname, stemOut, stemDone

VARIABLES
    idFiles,    \* the entries of DOCS_DIR the identifiers are computed over
    idOut,      \* supported file -> its storage identifier
    idAgain,    \* the same, computed a second time
    idStage     \* number of computations done

VARIABLES
    manA,       \* first argument of _manifests_equal
    manB,       \* second argument of _manifests_equal
    manRes      \* the results of the comparisons

VARIABLES
    snapBefore, \* DOCS_DIR at the first _compute_manifest
    snapAfter,  \* DOCS_DIR at the second _compute_manifest
    snapRes     \* the two manifests and their comparison

VARIABLES
    preArgs,    \* the arguments of preindex_all and the entries of DOCS_DIR
    prePc,      \* position in preindex_all
    preTotal,   \* files after line 374
    preSel,     \* files after the selection
    preTried,   \* the files build_or_load_db_for_file was called for, in order
    preSuccess, \* success
    preFailed,  \* failed
    preReport   \* what the run printed: an error, an empty selection, or counts

VARIABLES
    lsEntries,  \* the names os.listdir(DOCS_DIR) returns
    lsReq,      \* the request: its kind and the name it carries
    lsOut       \* what the handler answered

VARIABLES
    ansDocs,    \* the chunks the chain returned: result["source_documents"]
    ansReq,     \* top_k and include_snippets of the request
    ansOut      \* sources and snippets of the response

VARIABLES
    runDocs,    \* DOCS_DIR between the calls: name -> [present, size, mtime]
    runDb,      \* DB_DIR: identifier -> index directory
    runLast,    \* file -> the identifier its last returned index is under (history)
    runCall,    \* the last call of build_or_load_db_for_file (history)
    runHarm,    \* a directory an index was left in has been erased (history)
    runSteps    \* number of calls and changes so far

VARIABLES
    now,        \* datetime.utcnow(), in minutes
    sessions,   \* _sessions: session id -> SessionData
    s_lock,     \* _s_lock: the thread holding it, or NoThread
    sPc,        \* thread -> its position in the request
    sReq,       \* thread -> the request it serves
    sAuth,      \* thread -> what get_session did for the request (history)
    sDead,      \* the session ids a lookup has found expired (history)
    sOut,       \* the session ids /logout has removed (history)
    sCount,     \* number of sessions created so far
    sReqs,      \* number of requests started so far
    sTicks      \* number of times the clock was moved

idVars == <<idFiles, idOut, idAgain, idStage>>

manVars == <<manA, manB, manRes>>

snapVars == <<snapBefore, snapAfter, snapRes>>

preVars ==
    <<preArgs, prePc, preTotal, preSel, preTried, preSuccess, preFailed, preReport>>

lsVars == <<lsEntries, lsReq, lsOut>>

\* the variables of the handlers that are run on their own
ansVars == <<ansDocs, ansReq, ansOut>>

runVars == <<runDocs, runDb, runLast, runCall, runHarm, runSteps>>

sessVars ==
    <<now, sessions, s_lock, sPc, sReq, sAuth, sDead, sOut, sCount, sReqs, sTicks>>

furtherVars == <<lsVars, ansVars, runVars, sessVars>>

vars ==
    <<docs, events, db, catDb, lock, pc, req, loc, resp, gh, lastCall, reqs,
      fname, stemOut, stemDone, idVars, manVars, snapVars, preVars, furtherVars>>

srvVars == <<docs, events, db, catDb, lock, pc, req, loc, resp, gh, lastCall, reqs>>

stemVars == <<fname, stemOut, stemDone>>

\* the variables of the functions that are run on their own
pureVars == <<stemVars, idVars, manVars, snapVars, preVars, furtherVars>>

NoManifest == [st |-> "missing", entries |-> <<>>]

NoSrc == [name |-> <<>>, size |-> 0, mtime |-> 0]

\* a directory that does not exist, and one just made by os.makedirs
AbsentDir == [exists |-> FALSE, idx |-> "none", src |-> NoSrc, man |-> NoManifest]

FreshDir == [exists |-> TRUE, idx |-> "none", src |-> NoSrc, man |-> NoManifest]

NoReq == [kind |-> "none", file |-> <<>>]

LocInit == [safe |-> <<>>, newM |-> <<>>, content |-> NoSrc, out |-> "none"]

\* history of the last call that returned: set when a non-forced call found
\* no index, built one and returned, in a world that did not change meanwhile
NoCall == [file |-> <<>>, wroteMan |-> FALSE]

GhInit ==
    [vfail |-> FALSE, touched |-> FALSE, deleted |-> FALSE,
     loads |-> 0, hadEq |-> FALSE, unreadable |-> FALSE, fromEmpty |-> FALSE,
     statSrc |-> NoSrc, retSrc |-> NoSrc, retIdx |-> "none", quiet |-> FALSE,
     prev |-> NoCall, wroteMan |-> FALSE, readIdx |-> "unread"]

\* os.listdir(DOCS_DIR)
Listing == {n \in AllNames : docs[n].present}

\* the snapshot os.stat gives of a file that exists
Snapshot(n) == [name |-> n, size |-> docs[n].size, mtime |-> docs[n].mtime]

FirstFile == [present |-> TRUE, size |-> 1, mtime |-> 0]

InitDocs ==
    /\ docs \in [AllNames -> {NoFile, FirstFile}]
    /\ docs[Art].present
    /\ docs[Exe].present

InitRest ==
    /\ events = 0
    /\ db = [i \in DbIdents |-> AbsentDir]
    /\ catDb = "none"
    /\ lock = NoThread
    /\ pc = [t \in Threads |-> "idle"]
    /\ req = [t \in Threads |-> NoReq]
    /\ loc = [t \in Threads |-> LocInit]
    /\ resp = [t \in Threads |-> 0]
    /\ gh = [t \in Threads |-> GhInit]
    /\ lastCall = NoCall
    /\ reqs = 0

InitServer == InitDocs /\ InitRest

InitStemIdle ==
    /\ fname = <<>>
    /\ stemOut = <<>>
    /\ stemDone = FALSE

InitIdsIdle ==
    /\ idFiles = {}
    /\ idOut = <<>>
    /\ idAgain = <<>>
    /\ idStage = 0

InitManIdle ==
    /\ manA = <<>>
    /\ manB = <<>>
    /\ manRes = <<>>

InitSnapIdle ==
    /\ snapBefore = <<>>
    /\ snapAfter = <<>>
    /\ snapRes = <<>>

InitPreIdle ==
    /\ preArgs = <<>>
    /\ prePc = "idle"
    /\ preTotal = <<>>
    /\ preSel = <<>>
    /\ preTried = <<>>
    /\ preSuccess = 0
    /\ preFailed = <<>>
    /\ preReport = "none"

NoListReq == [kind |-> "none", raw |-> <<>>]

NoListOut == [name |-> <<>>, files |-> <<>>, status |-> 0, indexed |-> FALSE]

InitListIdle ==
    /\ lsEntries = {}
    /\ lsReq = NoListReq
    /\ lsOut = NoListOut

NoAnswer == [done |-> FALSE, sources |-> <<>>, snippets |-> <<>>]

InitAnsIdle ==
    /\ ansDocs = <<>>
    /\ ansReq = <<>>
    /\ ansOut = NoAnswer

InitRunIdle ==
    /\ runDocs = <<>>
    /\ runDb = <<>>
    /\ runLast = <<>>
    /\ runCall = <<>>
    /\ runHarm = FALSE
    /\ runSteps = 0

InitSessIdle ==
    /\ now = 0
    /\ sessions = <<>>
    /\ s_lock = NoThread
    /\ sPc = <<>>
    /\ sReq = <<>>
    /\ sAuth = <<>>
    /\ sDead = {}
    /\ sOut = {}
    /\ sCount = 0
    /\ sReqs = 0
    /\ sTicks = 0

InitFurtherIdle == InitListIdle /\ InitAnsIdle /\ InitRunIdle /\ InitSessIdle

\* the server before its first request, with every file of DOCS_DIR present
InitServerIdle ==
    /\ docs = [n \in AllNames |-> FirstFile]
    /\ InitRest

Init ==
    /\ InitServer /\ InitStemIdle /\ InitIdsIdle /\ InitManIdle /\ InitSnapIdle /\ InitPreIdle
    /\ InitFurtherIdle

(***************************************************************************)
(* build_or_load_db_for_file, step by step                                 *)
(***************************************************************************)
\* the check of line 171 left out
ValidatedAlways(file, files) == TRUE

\* line 171: file in files
Validated(file, files) == InSeq(file, files)

\* line 207: any(os.scandir(subdir))
DirNonEmpty(d) == d.idx # "none" \/ d.man.st # "missing"

\* the persisted manifest never read
ReadManifestNever(d) == <<>>

\* lines 208-214: the persisted manifest, [] when missing or not readable
ReadManifest(d) == IF d.man.st = "ok" THEN d.man.entries ELSE <<>>

\* the fast path taken without looking at force
FastPathUnforced(force, d, newM) ==
    /\ DirNonEmpty(d)
    /\ ManifestsEqual(ReadManifest(d), newM)

\* lines 202-215: the call returns the index that is on disk
FastPath(force, d, newM) ==
    /\ ~force
    /\ DirNonEmpty(d)
    /\ ManifestsEqual(ReadManifest(d), newM)

\* lines 204 and 224: shutil.rmtree(subdir) runs
MustWipe(force, d, newM) ==
    \/ force
    \/ DirNonEmpty(d) /\ ~ManifestsEqual(ReadManifest(d), newM)

\* lines 230-238: the loader chosen by extension
LoaderFor(file) ==
    IF EndsWith(Lower(file), <<".", "t", "x", "t">>) THEN "text"
    ELSE IF EndsWith(Lower(file), <<".", "p", "d", "f">>) THEN "pdf"
    ELSE IF EndsWith(Lower(file), <<".", "m", "d">>) THEN "md"
    ELSE "none"

\* force=True is what /reload passes (server.py lines 507 and 530)
IsForce(t) == req[t].kind \in {"reload", "reload_cat"}

\* the call of thread t ends: it returned `out` or raised it
Ends(t, out) ==
    /\ pc' = [pc EXCEPT ![t] = "b_done"]
    /\ loc' = [loc EXCEPT ![t].out = out]

\* lines 170-172
BValidate(t) ==
    /\ pc[t] = "b_validate"
    /\ LET files == SupportedFiles(Listing)
           listed == InSeq(req[t].file, SupportedFiles(Listing))
       IN  /\ gh' = [gh EXCEPT ![t].vfail = ~listed, ![t].quiet = TRUE,
                               ![t].prev = IF lastCall.file = req[t].file
                                           THEN lastCall ELSE NoCall]
           /\ IF Validated(req[t].file, files)
              THEN pc' = [pc EXCEPT ![t] = "b_ident"] /\ loc' = loc
              ELSE Ends(t, "ValueError")
    /\ UNCHANGED <<docs, events, db, catDb, lock, req, resp, lastCall, reqs, pureVars>>

\* lines 180-197: the identifier and os.makedirs(subdir, exist_ok=True)
BIdent(t) ==
    /\ pc[t] = "b_ident"
    /\ LET safe == StorageId(req[t].file, SupportedFiles(Listing))
       IN  /\ loc' = [loc EXCEPT ![t].safe = safe]
           /\ db' = [db EXCEPT ![safe].exists = TRUE]
    /\ gh' = [gh EXCEPT ![t].touched = TRUE]
    /\ pc' = [pc EXCEPT ![t] = "b_stat"]
    /\ UNCHANGED <<docs, events, catDb, lock, req, resp, lastCall, reqs, pureVars>>

\* line 199
BStat(t) ==
    /\ pc[t] = "b_stat"
    /\ loc' = [loc EXCEPT ![t].newM = ComputeManifest(<<req[t].file>>, docs)]
    /\ gh' = [gh EXCEPT ![t].statSrc =
                 IF docs[req[t].file].present THEN Snapshot(req[t].file) ELSE NoSrc]
    /\ pc' = [pc EXCEPT ![t] = "b_branch"]
    /\ UNCHANGED <<docs, events, db, catDb, lock, req, resp, lastCall, reqs, pureVars>>

\* lines 201-225
BBranch(t) ==
    /\ pc[t] = "b_branch"
    /\ LET safe == loc[t].safe
           d == db[safe]
           newM == loc[t].newM
           eq == ManifestsEqual(ReadManifest(d), newM)
           seen == [gh EXCEPT ![t].hadEq = DirNonEmpty(d) /\ eq,
                              ![t].unreadable = DirNonEmpty(d) /\ d.man.st # "ok",
                              ![t].fromEmpty = ~DirNonEmpty(d)]
       IN  IF FastPath(IsForce(t), d, newM)
           THEN /\ Ends(t, "loaded")
                /\ gh' = [seen EXCEPT ![t].retSrc = d.src, ![t].retIdx = d.idx]
                /\ db' = db
           ELSE /\ pc' = [pc EXCEPT ![t] = "b_load"]
                /\ loc' = loc
                /\ IF MustWipe(IsForce(t), d, newM)
                   THEN /\ db' = [db EXCEPT ![safe] = FreshDir]
                        /\ gh' = [seen EXCEPT ![t].deleted = TRUE]
                   ELSE /\ db' = db
                        /\ gh' = seen
    /\ UNCHANGED <<docs, events, catDb, lock, req, resp, lastCall, reqs, pureVars>>

\* lines 229-254: the loader reads the file, the splitter cuts it, and
\* Chroma.from_documents starts to write the index; any of them may raise
BLoad(t) ==
    /\ pc[t] = "b_load"
    /\ LET f == req[t].file
       IN  IF LoaderFor(f) = "none"
           THEN /\ Ends(t, "ValueError")
                /\ UNCHANGED <<db, gh>>
           ELSE /\ gh' = [gh EXCEPT ![t].loads = @ + 1]
                /\ \E ok \in BOOLEAN :
                      IF ok /\ docs[f].present
                      THEN /\ pc' = [pc EXCEPT ![t] = "b_persisting"]
                           /\ loc' = [loc EXCEPT ![t].content = Snapshot(f)]
                           /\ db' = [db EXCEPT ![loc[t].safe].idx = "partial"]
                      ELSE /\ Ends(t, "Exception")
                           /\ db' = db
    /\ UNCHANGED <<docs, events, catDb, lock, req, resp, lastCall, reqs, pureVars>>

\* lines 254-259: the embedding and the persisting end, or raise half-way
BPersist(t) ==
    /\ pc[t] = "b_persisting"
    /\ \E ok \in BOOLEAN :
          IF ok
          THEN /\ pc' = [pc EXCEPT ![t] = "b_manifest"]
               /\ loc' = loc
               /\ db' = [db EXCEPT ![loc[t].safe].idx = "complete",
                                   ![loc[t].safe].src = loc[t].content]
          ELSE /\ Ends(t, "Exception")
               /\ db' = db
    /\ UNCHANGED <<docs, events, catDb, lock, req, resp, gh, lastCall, reqs, pureVars>>

\* lines 261-268: the manifest is written; a failure to open the file leaves
\* none, a failure while writing leaves a cut one, and both are swallowed
BManifest(t) ==
    /\ pc[t] = "b_manifest"
    /\ \E w \in {"ok", "missing", "corrupt"} :
          /\ db' = [db EXCEPT ![loc[t].safe].man =
                        IF w = "ok" THEN [st |-> "ok", entries |-> loc[t].newM]
                        ELSE [st |-> w, entries |-> <<>>]]
          /\ gh' = [gh EXCEPT ![t].wroteMan = (w = "ok")]
    /\ Ends(t, "built")
    /\ UNCHANGED <<docs, events, catDb, lock, req, resp, lastCall, reqs, pureVars>>

(***************************************************************************)
(* The category variant                                                    *)
(***************************************************************************)
\* The modelled category is the one that holds every listed file.
CatMembers == SupportedFiles(Listing)

\* available_categories(): the category is offered while it has a file
CatAvailable == CatMembers # <<>>

\* build_or_load_db_for_category, in one step. The directory of the category
\* is kept as the state of its index only; whether its manifest is still
\* current is left open (fresh).
CatBuild(t) ==
    /\ pc[t] = "c_build"
    /\ IF ~CatAvailable
       THEN Ends(t, "ValueError") /\ catDb' = catDb
       ELSE \E fresh \in BOOLEAN, ok \in BOOLEAN :
               IF fresh /\ ~IsForce(t) /\ catDb # "none"
               THEN Ends(t, "loaded") /\ catDb' = catDb
               ELSE IF ok
               THEN Ends(t, "built") /\ catDb' = "complete"
               ELSE Ends(t, "Exception") /\ catDb' = "partial"
    /\ UNCHANGED <<docs, events, db, lock, req, resp, gh, lastCall, reqs, pureVars>>

(***************************************************************************)
(* server.py: /query and /reload                                           *)
(***************************************************************************)
\* the names a request may carry
ReqNames == AllNames

\* a `with lock:` that never waits
LockFreeAlways(l) == TRUE

\* `with lock:` enters only while no thread holds the lock
LockFree(l) == l = NoThread

\* what the call leaves for history when it returns to its handler
CallRecord(t) ==
    IF gh[t].quiet /\ req[t].kind = "query" /\ loc[t].out = "built" /\ gh[t].fromEmpty
    THEN [file |-> req[t].file, wroteMan |-> gh[t].wroteMan]
    ELSE NoCall

\* /query: lines 434-438 turn a ValueError into 404; any other exception
\* leaves the handler and the framework answers 500
QueryStatus(out) ==
    IF out = "ValueError" THEN 404 ELSE 500

\* /reload has no handler around the build (lines 506-507, 529-530): every
\* exception leaves the handler and the framework answers 500
ReloadStatus(out) ==
    IF out = "built" THEN 200 ELSE 500

Respond(t, status) ==
    /\ pc' = [pc EXCEPT ![t] = "responded"]
    /\ resp' = [resp EXCEPT ![t] = status]

\* the pool hands a request to its first idle thread
ThreadOrder == <<"w1", "w2">>

FirstIdle(t) ==
    \A i, j \in 1..Len(ThreadOrder) :
        ThreadOrder[j] = t /\ i < j => pc[ThreadOrder[i]] # "idle"

Start(t, kind, f, at) ==
    /\ pc[t] = "idle"
    /\ FirstIdle(t)
    /\ reqs < MaxReqs
    /\ reqs' = reqs + 1
    /\ req' = [req EXCEPT ![t] = [kind |-> kind, file |-> f]]
    /\ pc' = [pc EXCEPT ![t] = at]
    /\ UNCHANGED <<docs, events, db, catDb, lock, loc, resp, gh, lastCall, pureVars>>

\* lines 390-403, a request that names a file
QueryStart(t, f) == Start(t, "query", f, "q_lock")

\* lines 390-403, a request that names a category only
QueryCatStart(t) == Start(t, "query_cat", <<>>, "q_lock")

\* line 405
QueryLock(t) ==
    /\ pc[t] = "q_lock"
    /\ LockFree(lock)
    /\ lock' = t
    /\ pc' = [pc EXCEPT ![t] = "q_check"]
    /\ UNCHANGED <<docs, events, db, catDb, req, loc, resp, gh, lastCall, reqs, pureVars>>

\* lines 406-416 and 422-431: a miss raises HTTPException(404) out of the
\* `with` block, which releases the lock
QueryCheck(t) ==
    /\ pc[t] = "q_check"
    /\ IF req[t].kind = "query"
       THEN IF InSeq(req[t].file, SupportedFiles(Listing))
            THEN pc' = [pc EXCEPT ![t] = "b_validate"] /\ UNCHANGED <<lock, resp>>
            ELSE Respond(t, 404) /\ lock' = NoThread
       ELSE IF CatAvailable
            THEN pc' = [pc EXCEPT ![t] = "c_build"] /\ UNCHANGED <<lock, resp>>
            ELSE Respond(t, 404) /\ lock' = NoThread
    /\ UNCHANGED <<docs, events, db, catDb, req, loc, gh, lastCall, reqs, pureVars>>

\* lines 417-438: the build returned or raised; the lock is released
QueryAfter(t) ==
    /\ pc[t] = "b_done"
    /\ req[t].kind \in {"query", "query_cat"}
    /\ lock' = NoThread
    /\ lastCall' = IF req[t].kind = "query" THEN CallRecord(t) ELSE lastCall
    /\ IF loc[t].out \in {"built", "loaded"}
       THEN pc' = [pc EXCEPT ![t] = "q_retrieve"] /\ resp' = resp
       ELSE Respond(t, QueryStatus(loc[t].out))
    /\ UNCHANGED <<docs, events, db, catDb, req, loc, gh, reqs, pureVars>>

\* lines 440-489: the retrieval reads the index directory, outside the lock;
\* an exception of the chain gives 500
QueryRetrieve(t) ==
    /\ pc[t] = "q_retrieve"
    /\ gh' = [gh EXCEPT ![t].readIdx =
                 IF req[t].kind = "query" THEN db[loc[t].safe].idx ELSE catDb]
    /\ \E ok \in BOOLEAN : Respond(t, IF ok THEN 200 ELSE 500)
    /\ UNCHANGED <<docs, events, db, catDb, lock, req, loc, lastCall, reqs, pureVars>>

\* lines 494-495
ReloadStart(t, f) == Start(t, "reload", f, "r_check")

\* lines 517-518
ReloadCatStart(t) == Start(t, "reload_cat", <<>>, "r_check")

\* lines 496-505 and 519-528: the check, before the lock is taken
ReloadCheck(t) ==
    /\ pc[t] = "r_check"
    /\ IF req[t].kind = "reload"
       THEN IF InSeq(req[t].file, SupportedFiles(Listing))
            THEN pc' = [pc EXCEPT ![t] = "r_lock"] /\ resp' = resp
            ELSE Respond(t, 404)
       ELSE IF CatAvailable
            THEN pc' = [pc EXCEPT ![t] = "r_lock"] /\ resp' = resp
            ELSE Respond(t, 404)
    /\ UNCHANGED <<docs, events, db, catDb, lock, req, loc, gh, lastCall, reqs, pureVars>>

\* lines 506 and 529
ReloadLock(t) ==
    /\ pc[t] = "r_lock"
    /\ LockFree(lock)
    /\ lock' = t
    /\ pc' = [pc EXCEPT ![t] = IF req[t].kind = "reload" THEN "b_validate" ELSE "c_build"]
    /\ UNCHANGED <<docs, events, db, catDb, req, loc, resp, gh, lastCall, reqs, pureVars>>

\* lines 507-515 and 530-538
ReloadAfter(t) ==
    /\ pc[t] = "b_done"
    /\ req[t].kind \in {"reload", "reload_cat"}
    /\ lock' = NoThread
    /\ lastCall' = IF req[t].kind = "reload" THEN CallRecord(t) ELSE lastCall
    /\ Respond(t, ReloadStatus(loc[t].out))
    /\ UNCHANGED <<docs, events, db, catDb, req, loc, gh, reqs, pureVars>>

\* the response is sent and the thread takes the next request
Finish(t) ==
    /\ pc[t] = "responded"
    /\ pc' = [pc EXCEPT ![t] = "idle"]
    /\ req' = [req EXCEPT ![t] = NoReq]
    /\ loc' = [loc EXCEPT ![t] = LocInit]
    /\ gh' = [gh EXCEPT ![t] = GhInit]
    /\ resp' = [resp EXCEPT ![t] = 0]
    /\ UNCHANGED <<docs, events, db, catDb, lock, lastCall, reqs, pureVars>>

(***************************************************************************)
(* DOCS_DIR changes from outside the program                               *)
(***************************************************************************)
\* history: the calls on the files of S no longer run in an unchanged world
Disturb(S) ==
    /\ gh' = [t \in Threads |->
                 IF req[t].file \in S
                 THEN [gh[t] EXCEPT !.quiet = FALSE, !.prev = NoCall]
                 ELSE gh[t]]
    /\ lastCall' = IF lastCall.file \in S THEN NoCall ELSE lastCall

\* a file is put into the directory
AddFile(n) ==
    /\ events < MaxEvents
    /\ ~docs[n].present
    /\ docs' = [docs EXCEPT ![n] = FirstFile]
    /\ events' = events + 1
    /\ Disturb(AllNames)
    /\ UNCHANGED <<db, catDb, lock, pc, req, loc, resp, reqs, pureVars>>

RemoveFile(n) ==
    /\ events < MaxEvents
    /\ docs[n].present
    /\ docs' = [docs EXCEPT ![n] = NoFile]
    /\ events' = events + 1
    /\ Disturb(AllNames)
    /\ UNCHANGED <<db, catDb, lock, pc, req, loc, resp, reqs, pureVars>>

\* a write to the file: the size or the modification time changes, and the
\* modification time never goes back
ModifyFile(n) ==
    /\ n = F1
    /\ events < MaxEvents
    /\ docs[n].present
    /\ \E s \in 1..MaxSize, m \in docs[n].mtime..MaxTick :
          /\ <<s, m>> # <<docs[n].size, docs[n].mtime>>
          /\ docs' = [docs EXCEPT ![n].size = s, ![n].mtime = m]
    /\ events' = events + 1
    /\ Disturb({n})
    /\ UNCHANGED <<db, catDb, lock, pc, req, loc, resp, reqs, pureVars>>

(***************************************************************************)
(* The server with its environment                                         *)
(***************************************************************************)
Next ==
    \/ \E t \in Threads :
          \/ \E f \in ReqNames : QueryStart(t, f) \/ ReloadStart(t, f)
          \/ QueryCatStart(t)
          \/ ReloadCatStart(t)
          \/ QueryLock(t)
          \/ QueryCheck(t)
          \/ QueryAfter(t)
          \/ QueryRetrieve(t)
          \/ ReloadCheck(t)
          \/ ReloadLock(t)
          \/ ReloadAfter(t)
          \/ Finish(t)
          \/ BValidate(t)
          \/ BIdent(t)
          \/ BStat(t)
          \/ BBranch(t)
          \/ BLoad(t)
          \/ BPersist(t)
          \/ BManifest(t)
          \/ CatBuild(t)
    \/ \E n \in DynNames : AddFile(n) \/ RemoveFile(n) \/ ModifyFile(n)

Spec == Init /\ [][Next]_vars

(***************************************************************************)
(* _safe_stem over a bounded set of file names                             *)
(***************************************************************************)
\* one character of every class the function tells apart
StemAlphabet == {"a", "7", ".", "_", "-", " ", "/", "U00E9", "U4E2D", "U2026"}

\* every short name is tried
MaxShort == 3

\* long names are as long as the cut, give or take PadSlack
PadSlack == 1

\* a long name has at most MaxEdge characters before and after its filling
MaxEdge == 1

\* the characters at the ends of a long name: kept, trimmed, replaced, and
\* folded to more than one character
EdgeChars == {"a", ".", " ", "U2026"}

RECURSIVE SeqsUpTo(_, _)
SeqsUpTo(A, n) ==
    IF n = 0 THEN {<<>>}
    ELSE LET shorter == SeqsUpTo(A, n - 1)
         IN  shorter \cup {<<c>> \o w : c \in A, w \in shorter}

Repeat(c, n) == [i \in 1..n |-> c]

StemExts == {<<>>, <<".", "t", "x", "t">>}

ShortNames == {w \o e : w \in SeqsUpTo(StemAlphabet, MaxShort), e \in StemExts}

LongNames ==
    {pre \o Repeat(c, n) \o post \o e :
        pre \in SeqsUpTo(EdgeChars, MaxEdge),
        c \in StemAlphabet,
        n \in (MaxStemLen - PadSlack)..(MaxStemLen + PadSlack),
        post \in SeqsUpTo(EdgeChars, MaxEdge),
        e \in StemExts}

InitStem ==
    /\ fname \in ShortNames \cup LongNames
    /\ stemOut = <<>>
    /\ stemDone = FALSE
    /\ InitServerIdle
    /\ InitFurtherIdle
    /\ InitIdsIdle
    /\ InitManIdle
    /\ InitSnapIdle
    /\ InitPreIdle

\* _safe_stem(fname)
Sanitize ==
    /\ ~stemDone
    /\ stemOut' = SafeStem(fname)
    /\ stemDone' = TRUE
    /\ UNCHANGED <<fname, srvVars, idVars, manVars, snapVars, preVars, furtherVars>>

NextStem == Sanitize

SpecStem == InitStem /\ [][NextStem]_vars

(***************************************************************************)
(* The storage identifiers of a set of files                               *)
(***************************************************************************)
\* the entries DOCS_DIR may hold
IdPool == {F1, F2, Art, Exe, Clash, LongTxt, LongMd, DotCut}

SeqSet(s) == {s[i] : i \in 1..Len(s)}

\* lines 170-190 for every supported file of the directory
IdsOf(entries) ==
    LET files == SupportedFiles(entries)
    IN  [f \in SeqSet(files) |-> StorageId(f, files)]

InitIds ==
    /\ idFiles \in SUBSET IdPool
    /\ idOut = <<>>
    /\ idAgain = <<>>
    /\ idStage = 0
    /\ InitServerIdle
    /\ InitFurtherIdle
    /\ InitStemIdle
    /\ InitManIdle
    /\ InitSnapIdle
    /\ InitPreIdle

\* build_or_load_db_for_file computes the identifier of each supported file
ComputeIds ==
    /\ idStage = 0
    /\ idOut' = IdsOf(idFiles)
    /\ idStage' = 1
    /\ UNCHANGED <<idFiles, idAgain, srvVars, stemVars, manVars, snapVars, preVars, furtherVars>>

\* and computes them again, over the same directory
RecomputeIds ==
    /\ idStage = 1
    /\ idAgain' = IdsOf(idFiles)
    /\ idStage' = 2
    /\ UNCHANGED <<idFiles, idOut, srvVars, stemVars, manVars, snapVars, preVars, furtherVars>>

NextIds == ComputeIds \/ RecomputeIds

SpecIds == InitIds /\ [][NextIds]_vars

(***************************************************************************)
(* _manifests_equal over manifests with unique names                       *)
(***************************************************************************)
ManNames == {F1, F2, Exe}

\* the entries a manifest may hold, {"name", "size", "mtime"}: an entry
\* differs from the smallest and oldest one in its size or in its time
ManEntries ==
    {e \in [name : ManNames, size : 1..MaxSize, mtime : 0..WholeSeconds(MaxTick)] :
        e.size = 1 \/ e.mtime = 0}

\* the manifests with the entries of the set E in every order
RECURSIVE OrdersOf(_)
OrdersOf(E) ==
    IF E = {} THEN {<<>>}
    ELSE UNION {{<<e>> \o m : m \in OrdersOf(E \ {e})} : e \in E}

\* the sets of entries in which no two entries have the same name
UniqueSets ==
    {E \in SUBSET ManEntries : \A e, g \in E : e.name = g.name => e = g}

Manifests == UNION {OrdersOf(E) : E \in UniqueSets}

InitManEq ==
    /\ manA \in Manifests
    /\ manB \in Manifests
    /\ manRes = <<>>
    /\ InitServerIdle
    /\ InitFurtherIdle
    /\ InitStemIdle
    /\ InitIdsIdle
    /\ InitSnapIdle
    /\ InitPreIdle

\* _manifests_equal(a, b), _manifests_equal(b, a) and _manifests_equal(a, a)
CompareManifests ==
    /\ manRes = <<>>
    /\ manRes' = [ab |-> ManifestsEqual(manA, manB),
                  ba |-> ManifestsEqual(manB, manA),
                  aa |-> ManifestsEqual(manA, manA)]
    /\ UNCHANGED <<manA, manB, srvVars, stemVars, idVars, snapVars, preVars, furtherVars>>

NextManEq == CompareManifests

SpecManEq == InitManEq /\ [][NextManEq]_vars

(***************************************************************************)
(* _compute_manifest, twice for one file list                              *)
(***************************************************************************)
\* the file list both manifests are computed for
SnapFiles == <<F1, F2>>

\* the states a file of DOCS_DIR may be in
FileStates ==
    {NoFile} \cup [present : {TRUE}, size : 1..MaxSize, mtime : 0..MaxTick]

InitSnap ==
    /\ snapBefore \in [SeqSet(SnapFiles) -> FileStates]
    /\ snapAfter \in [SeqSet(SnapFiles) -> FileStates]
    /\ snapRes = <<>>
    /\ InitServerIdle
    /\ InitFurtherIdle
    /\ InitStemIdle
    /\ InitIdsIdle
    /\ InitManIdle
    /\ InitPreIdle

\* _compute_manifest(files) before and after, and their comparison
TakeSnapshots ==
    /\ snapRes = <<>>
    /\ LET m1 == ComputeManifest(SnapFiles, snapBefore)
           m2 == ComputeManifest(SnapFiles, snapAfter)
       IN  snapRes' = [first |-> m1, second |-> m2, eq |-> ManifestsEqual(m1, m2)]
    /\ UNCHANGED <<snapBefore, snapAfter, srvVars, stemVars, idVars, manVars, preVars, furtherVars>>

NextSnap == TakeSnapshots

SpecSnap == InitSnap /\ [][NextSnap]_vars

(***************************************************************************)
(* preindex_all                                                            *)
(***************************************************************************)
\* the largest number given as offset, limit, batch_size or batch_index
MaxArg == 3

PdfA == <<"a", ".", "p", "d", "f">>

PdfB == <<"b", ".", "P", "D", "F">>

PdfC == <<"c", ".", "p", "d", "f">>

TxtD == <<"d", ".", "t", "x", "t">>

\* the entries DOCS_DIR may hold when preindex_all runs
PreNames == {PdfA, PdfB, PdfC, TxtD}

\* an argument left at None, and one given as n
NoneArg == [given |-> FALSE, val |-> 0]

Given(n) == [given |-> TRUE, val |-> n]

ArgValues == {NoneArg} \cup {Given(n) : n \in -1..MaxArg}

Min(a, b) == IF a < b THEN a ELSE b

Max(a, b) == IF a > b THEN a ELSE b

\* s[a:b] as Python slices a list: a negative index counts from the end
PySlice(s, a, b) ==
    LET norm(x) == IF x < 0 THEN Max(0, x + Len(s)) ELSE Min(x, Len(s))
        lo == norm(a)
        hi == norm(b)
    IN  IF lo >= hi THEN <<>> ELSE SubSeq(s, lo + 1, hi)

\* lines 373-374
PdfFilter(files, pdf_only) ==
    IF pdf_only
    THEN SelectSeq(files, LAMBDA f : EndsWith(Lower(f), <<".", "p", "d", "f">>))
    ELSE files

\* a test that looks at the offset only
UsesOffsetOnly(offset, limit) == offset.given

\* line 382
UsesOffsetLimit(offset, limit) == offset.given \/ limit.given

\* line 396
UsesBatch(batch_size, batch_index) == batch_size.given \/ batch_index.given

\* the offset taken as given
ClampOffsetNot(offset) == IF offset.given THEN offset.val ELSE 0

\* line 383: max(0, offset or 0)
ClampOffset(offset) == Max(0, IF offset.given THEN offset.val ELSE 0)

\* a batch count that takes every batch for one file
NumBatchesLoose(total, batch_size) == total

\* line 403
NumBatches(total, batch_size) == (total + batch_size - 1) \div batch_size

\* a start that counts the batches from 0
BatchStartShifted(batch_index, batch_size) == batch_index * batch_size

\* line 407
BatchStart(batch_index, batch_size) == (batch_index - 1) * batch_size

\* line 408
BatchEnd(total, start, batch_size) == Min(total, start + batch_size)

\* lines 383-394
SelectByOffset(files, offset, limit) ==
    LET off == ClampOffset(offset)
    IN  IF ~limit.given
        THEN [report |-> "selected", sel |-> PySlice(files, off, Len(files))]
        ELSE IF limit.val < 0
        THEN [report |-> "error_limit", sel |-> <<>>]
        ELSE [report |-> "selected", sel |-> PySlice(files, off, off + limit.val)]

\* lines 397-413
SelectByBatch(files, batch_size, batch_index) ==
    IF ~batch_size.given \/ ~batch_index.given
    THEN [report |-> "error_pair", sel |-> <<>>]
    ELSE IF batch_size.val <= 0 \/ batch_index.val <= 0
    THEN [report |-> "error_positive", sel |-> <<>>]
    ELSE IF batch_index.val > NumBatches(Len(files), batch_size.val)
    THEN [report |-> "error_range", sel |-> <<>>]
    ELSE LET start == BatchStart(batch_index.val, batch_size.val)
             end == BatchEnd(Len(files), start, batch_size.val)
         IN  [report |-> "selected", sel |-> PySlice(files, start, end)]

\* lines 391-393 and 410-412: an empty selection is reported and ends the run
EmptyChecked(r) ==
    IF r.report = "selected" /\ r.sel = <<>>
    THEN [report |-> "empty", sel |-> <<>>]
    ELSE r

\* lines 380-413 for a list that is not empty
PreSelection(files, offset, limit, batch_size, batch_index) ==
    IF UsesOffsetLimit(offset, limit)
    THEN EmptyChecked(SelectByOffset(files, offset, limit))
    ELSE IF UsesBatch(batch_size, batch_index)
    THEN EmptyChecked(SelectByBatch(files, batch_size, batch_index))
    ELSE [report |-> "selected", sel |-> files]

\* a loop that stops at the first build that raises
PcAfterBuildAbort(tried, sel, raised) ==
    IF raised \/ Len(tried) = Len(sel) THEN "report" ELSE "loop"

\* line 420: the loop goes on to the next file whether or not the build raised
PcAfterBuild(tried, sel, raised) ==
    IF Len(tried) = Len(sel) THEN "report" ELSE "loop"

InitPre ==
    /\ preArgs \in [entries : SUBSET PreNames, pdf_only : BOOLEAN,
                    offset : ArgValues, limit : ArgValues,
                    batch_size : ArgValues, batch_index : ArgValues]
    /\ prePc = "start"
    /\ preTotal = <<>>
    /\ preSel = <<>>
    /\ preTried = <<>>
    /\ preSuccess = 0
    /\ preFailed = <<>>
    /\ preReport = "none"
    /\ InitServerIdle
    /\ InitFurtherIdle
    /\ InitStemIdle
    /\ InitIdsIdle
    /\ InitManIdle
    /\ InitSnapIdle

\* lines 372-418: the list, and the selection or the message that ends the run
PreStart ==
    /\ prePc = "start"
    /\ LET files == PdfFilter(SupportedFiles(preArgs.entries), preArgs.pdf_only)
           r == PreSelection(files, preArgs.offset, preArgs.limit,
                             preArgs.batch_size, preArgs.batch_index)
       IN  /\ preTotal' = files
           /\ IF files = <<>>
              THEN /\ preReport' = "no_files"
                   /\ preSel' = <<>>
                   /\ prePc' = "done"
              ELSE /\ preReport' = r.report
                   /\ preSel' = r.sel
                   /\ prePc' = IF r.report = "selected" THEN "loop" ELSE "done"
    /\ UNCHANGED <<preArgs, preTried, preSuccess, preFailed>>
    /\ UNCHANGED <<srvVars, stemVars, idVars, manVars, snapVars, furtherVars>>

\* lines 420-427: build_or_load_db_for_file for the next file returns or raises
PreBuild ==
    /\ prePc = "loop"
    /\ LET f == preSel[Len(preTried) + 1]
           tried == Append(preTried, f)
       IN  /\ preTried' = tried
           /\ \E raised \in BOOLEAN :
                 /\ preSuccess' = IF raised THEN preSuccess ELSE preSuccess + 1
                 /\ preFailed' = IF raised THEN Append(preFailed, f) ELSE preFailed
                 /\ prePc' = PcAfterBuild(tried, preSel, raised)
    /\ UNCHANGED <<preArgs, preTotal, preSel, preReport>>
    /\ UNCHANGED <<srvVars, stemVars, idVars, manVars, snapVars, furtherVars>>

\* lines 428-432: the counts and the list of failures are printed
PreFinish ==
    /\ prePc = "report"
    /\ prePc' = "done"
    /\ UNCHANGED <<preArgs, preTotal, preSel, preTried, preSuccess, preFailed, preReport>>
    /\ UNCHANGED <<srvVars, stemVars, idVars, manVars, snapVars, furtherVars>>

NextPre == PreStart \/ PreBuild \/ PreFinish

SpecPre == InitPre /\ [][NextPre]_vars

(***************************************************************************)
(* _supported_files and the handlers that look a name up in it             *)
(***************************************************************************)
\* side-car files of a download, and an upper-case extension
ZoneA == F2 \o <<":">> \o ZoneIdentifier

ZoneB == F2 \o ZoneIdentifier

MdUp == <<"N", ".", "M", "D">>

\* the entries DOCS_DIR may hold
ListPool == {F1, F2, Art, Exe, PdfB, MdUp, ZoneA, ZoneB}

\* the names a request may carry: an entry, an entry between spaces, an
\* entry behind a backslash, a name that is no entry, or nothing
ListReqNames ==
    ListPool
        \cup {<<" ">> \o n \o <<" ">> : n \in {F2, Exe}}
        \cup {<<"\\">> \o F2, TxtD, <<" ">>, <<>>}

\* s.replace("\\", "/")
Slashes(s) == [i \in 1..Len(s) |-> IF s[i] = "\\" THEN "/" ELSE s[i]]

\* the whitespace that occurs in names and texts
IsSpace(c) == c \in {" ", "\t", "\n"}

\* s.strip()
Strip(s) ==
    LET idx == {i \in 1..Len(s) : ~IsSpace(s[i])}
    IN  IF idx = {} THEN <<>>
        ELSE SubSeq(s, CHOOSE i \in idx : \A j \in idx : i <= j,
                       CHOOSE i \in idx : \A j \in idx : j <= i)

InitList ==
    /\ InitServerIdle
    /\ InitStemIdle
    /\ InitIdsIdle
    /\ InitManIdle
    /\ InitSnapIdle
    /\ InitPreIdle
    /\ InitAnsIdle
    /\ InitRunIdle
    /\ InitSessIdle
    /\ lsEntries \in SUBSET ListPool
    /\ lsReq = NoListReq
    /\ lsOut = NoListOut

Answered(kind, raw, out) ==
    /\ lsReq.kind = "none"
    /\ lsReq' = [kind |-> kind, raw |-> raw]
    /\ lsOut' = out
    /\ UNCHANGED <<lsEntries, srvVars, stemVars, idVars, manVars, snapVars, preVars,
                   ansVars, runVars, sessVars>>

\* /files without a category
ListFiles ==
    Answered("files", <<>>,
             [name |-> <<>>, files |-> SupportedFiles(lsEntries),
              status |-> 200, indexed |-> FALSE])

\* /query for a file, no category given: lines 391-394 and 406-418; the
\* build or the chain may fail after the name was accepted
QueryFile(raw) ==
    LET file == Strip(Slashes(raw))
        files == SupportedFiles(lsEntries)
    IN  \E ok \in BOOLEAN :
            Answered("query", raw,
                     [name |-> file, files |-> files,
                      status |-> IF file = <<>> THEN 400
                                 ELSE IF ~InSeq(file, files) THEN 404
                                 ELSE IF ok THEN 200 ELSE 500,
                      indexed |-> file # <<>> /\ InSeq(file, files)
                                    /\ Validated(file, files)])

\* /reload for a file: lines 494-515, and line 540 when no name is given
ReloadFile(raw) ==
    LET file == Strip(Slashes(raw))
        files == SupportedFiles(lsEntries)
    IN  \E ok \in BOOLEAN :
            Answered("reload", raw,
                     [name |-> file, files |-> files,
                      status |-> IF raw = <<>> THEN 400
                                 ELSE IF ~InSeq(file, files) THEN 404
                                 ELSE IF ok THEN 200 ELSE 500,
                      indexed |-> raw # <<>> /\ InSeq(file, files)
                                    /\ Validated(file, files)])

\* /doc/{path}: lines 545-570
GetDocument(path) ==
    LET normalized == Slashes(path)
        files == SupportedFiles(lsEntries)
    IN  Answered("doc", path,
                 [name |-> normalized, files |-> files,
                  status |-> IF InSeq(normalized, files) THEN 200 ELSE 404,
                  indexed |-> FALSE])

NextList ==
    \/ ListFiles
    \/ \E raw \in ListReqNames : QueryFile(raw)
    \/ \E raw \in ListReqNames : ReloadFile(raw)
    \/ \E raw \in ListReqNames : GetDocument(raw)

SpecList == InitList /\ [][NextList]_vars

(***************************************************************************)
(* /query: sources and snippets of the response                            *)
(***************************************************************************)
\* the largest number of chunks the chain returns
MaxChunks == 6

\* the largest number of chunks with a long text
MaxLongChunks == 2

\* line 474
SnippetMax == 700

Ellipsis == "U2026"

\* a chunk: metadata["source"] ("" when there is none) and page_content
Chunk(src, text) == [source |-> src, content |-> text]

Words == <<"x", " ", "\n", "\t", "y">>

Blank == <<" ", "\n">>

\* texts around the cut of line 475: as long as the limit, one longer, one
\* whose last character before the cut is a space, and one that is longer
\* than the limit only before its whitespace is collapsed
LongExact == Repeat("x", SnippetMax)

LongOver == Repeat("x", SnippetMax + 1)

LongSpace == Repeat("x", SnippetMax - 1) \o <<" ", "y", "z">>

LongRuns == Repeat("x", SnippetMax - 2) \o <<" ", " ", "\n", "y">>

ShortChunks ==
    {Chunk("", <<"x">>), Chunk("A", Blank), Chunk("A", <<"x">>), Chunk("B", Words)}

LongChunks ==
    {Chunk("A", LongExact), Chunk("A", LongOver), Chunk("B", LongSpace),
     Chunk("B", LongRuns)}

\* top_k: Optional[int], ge=1, le=10
TopKs == {NoneArg, Given(1), Given(MaxChunks)}

\* the duplicate test left out
SeenBeforeNever(src, srcs) == FALSE

\* line 460: src not in srcs
SeenBefore(src, srcs) == InSeq(src, srcs)

\* lines 458-462
RECURSIVE SourcesFrom(_, _)
SourcesFrom(chunks, srcs) ==
    IF chunks = <<>> THEN srcs
    ELSE LET src == Head(chunks).source
         IN  SourcesFrom(Tail(chunks),
                         IF src # "" /\ ~SeenBefore(src, srcs)
                         THEN Append(srcs, src) ELSE srcs)

\* a limit that follows top_k alone
SnippetLimitTopK(top_k) == IF top_k.given THEN top_k.val ELSE 3

\* line 467: max(5, (req.top_k or 3))
SnippetLimit(top_k) == Max(5, IF top_k.given THEN top_k.val ELSE 3)

\* re.sub(r"\s+", " ", s) on s[lo..hi]: the first character of a run of
\* whitespace becomes a space and the others go, by halves
RECURSIVE CollapseSpaceRange(_, _, _)
CollapseSpaceRange(s, lo, hi) ==
    IF lo > hi THEN <<>>
    ELSE IF lo = hi
         THEN IF ~IsSpace(s[lo]) THEN <<s[lo]>>
              ELSE IF lo > 1 /\ IsSpace(s[lo - 1]) THEN <<>> ELSE <<" ">>
    ELSE LET mid == (lo + hi) \div 2
         IN  CollapseSpaceRange(s, lo, mid) \o CollapseSpaceRange(s, mid + 1, hi)

CollapseSpaces(s) == CollapseSpaceRange(s, 1, Len(s))

\* s.rstrip()
RStrip(s) ==
    LET idx == {i \in 1..Len(s) : ~IsSpace(s[i])}
    IN  IF idx = {} THEN <<>>
        ELSE SubSeq(s, 1, CHOOSE i \in idx : \A j \in idx : j <= i)

\* lines 473-475
CleanSnippet(content) ==
    LET clean == CollapseSpaces(content)
    IN  IF Len(clean) > SnippetMax
        THEN RStrip(SubSeq(clean, 1, SnippetMax)) \o <<Ellipsis>>
        ELSE clean

\* lines 468-476
RECURSIVE SnippetsFrom(_, _, _)
SnippetsFrom(chunks, seen, snippets) ==
    IF chunks = <<>> THEN snippets
    ELSE LET src == Head(chunks).source
             content == Strip(Head(chunks).content)
         IN  IF src = "" \/ content = <<>> \/ src \in seen
             THEN SnippetsFrom(Tail(chunks), seen, snippets)
             ELSE SnippetsFrom(Tail(chunks), seen \cup {src},
                               Append(snippets,
                                      [source |-> src, snippet |-> CleanSnippet(content)]))

InitAns ==
    /\ InitServerIdle
    /\ InitStemIdle
    /\ InitIdsIdle
    /\ InitManIdle
    /\ InitSnapIdle
    /\ InitPreIdle
    /\ InitListIdle
    /\ InitRunIdle
    /\ InitSessIdle
    /\ ansDocs \in SeqsUpTo(ShortChunks, MaxChunks)
                      \cup SeqsUpTo(LongChunks, MaxLongChunks)
    /\ ansReq \in [top_k : TopKs, include_snippets : BOOLEAN]
    /\ ansOut = NoAnswer

\* lines 456-489: the response made of what the chain returned
Answer ==
    /\ ~ansOut.done
    /\ ansOut' =
          [done |-> TRUE,
           sources |-> SourcesFrom(ansDocs, <<>>),
           snippets |-> IF ansReq.include_snippets
                        THEN SnippetsFrom(Take(ansDocs, SnippetLimit(ansReq.top_k)),
                                          {}, <<>>)
                        ELSE <<>>]
    /\ UNCHANGED <<ansDocs, ansReq, srvVars, stemVars, idVars, manVars, snapVars,
                   preVars, lsVars, runVars, sessVars>>

NextAns == Answer

SpecAns == InitAns /\ [][NextAns]_vars

(***************************************************************************)
(* build_or_load_db_for_file called again and again, one call at a time,   *)
(* while files come to DOCS_DIR and go                                     *)
(***************************************************************************)
\* the number of calls and changes in a run
MaxRunSteps == 5

\* three supported names with the stem a_b
RunNames == {F1, F2, F3}

RunIdents ==
    UNION {{SafeStem(f), SafeStem(f) \o <<"-">> \o ShortHash(f)} : f \in RunNames}

\* history of a call: the identifier it resolved (safe), the identifier the
\* file's last returned index is under (prev), whether the resolved directory
\* held an index built from the file as it is now (hit), and whether the
\* directory of prev came out of the call as it went in (kept)
NoRunCall ==
    [file |-> <<>>, force |-> FALSE, safe |-> <<>>, prev |-> <<>>, out |-> "none",
     hit |-> FALSE, kept |-> TRUE]

\* _supported_files() for every content of DOCS_DIR, and the identifier
\* lines 180-189 give each listed file
RunFilesOf == [L \in SUBSET RunNames |-> SupportedFiles(L)]

\* (chosen from a singleton and compared, so that the table is computed once)
RunIdOf ==
    CHOOSE t \in {[L \in SUBSET RunNames |->
                     [f \in L |-> StorageId(f, SupportedFiles(L))]]} : t = t

RunListing == {n \in RunNames : runDocs[n].present}

RunFiles == RunFilesOf[RunListing]

\* the directory i holds an index of a file whose last returned index is
\* under another identifier
LeftBehind(i) ==
    /\ runDb[i].idx = "complete"
    /\ runLast[runDb[i].src.name] \notin {<<>>, i}

InitRuns ==
    /\ InitServerIdle
    /\ InitStemIdle
    /\ InitIdsIdle
    /\ InitManIdle
    /\ InitSnapIdle
    /\ InitPreIdle
    /\ InitListIdle
    /\ InitAnsIdle
    /\ InitSessIdle
    /\ runDocs \in [RunNames -> {NoFile, FirstFile}]
    /\ runDb = [i \in RunIdents |-> AbsentDir]
    /\ runLast = [f \in RunNames |-> <<>>]
    /\ runCall = NoRunCall
    /\ runHarm = FALSE
    /\ runSteps = 0

RunStep ==
    /\ runSteps < MaxRunSteps
    /\ runSteps' = runSteps + 1
    /\ UNCHANGED <<srvVars, stemVars, idVars, manVars, snapVars, preVars, lsVars,
                   ansVars, sessVars>>

\* lines 168-268, the whole call: w is where it stops (the loader or the
\* splitter raises, the embedding or the persisting raises, the manifest is
\* not written, or nothing fails)
RunBuild(file, force) ==
    /\ RunStep
    /\ runDocs' = runDocs
    /\ IF ~Validated(file, RunFiles)
       THEN /\ runCall' = [NoRunCall EXCEPT !.file = file, !.force = force,
                                            !.prev = runLast[file],
                                            !.out = "ValueError"]
            /\ UNCHANGED <<runDb, runLast, runHarm>>
       ELSE \E safe \in {RunIdOf[RunListing][file]},
               newM \in {ComputeManifest(<<file>>, runDocs)} :
            \E d \in {[runDb[safe] EXCEPT !.exists = TRUE]} :
            \E fast \in {FastPath(force, d, newM)},
               wipe \in {MustWipe(force, d, newM)},
               w \in {"load", "persist", "missing", "ok"} :
                   LET base == IF wipe THEN FreshDir ELSE d
                       src == [name |-> file, size |-> runDocs[file].size,
                               mtime |-> runDocs[file].mtime]
                       after ==
                          IF fast THEN d
                          ELSE IF w = "load" THEN base
                          ELSE IF w = "persist" THEN [base EXCEPT !.idx = "partial"]
                          ELSE [base EXCEPT
                                   !.idx = "complete", !.src = src,
                                   !.man = IF w = "ok"
                                           THEN [st |-> "ok", entries |-> newM]
                                           ELSE NoManifest]
                       out == IF fast THEN "loaded"
                              ELSE IF w \in {"load", "persist"} THEN "Exception"
                              ELSE "built"
                   IN  /\ runDb' = [runDb EXCEPT ![safe] = after]
                       /\ runCall' =
                             [file |-> file, force |-> force, safe |-> safe,
                              prev |-> runLast[file], out |-> out,
                              hit |-> d.idx = "complete" /\ d.src = src,
                              kept |-> runLast[file] \in {<<>>, safe}
                                          \/ runDb'[runLast[file]] = runDb[runLast[file]]]
                       /\ runLast' = IF out \in {"built", "loaded"}
                                     THEN [runLast EXCEPT ![file] = safe]
                                     ELSE runLast
                       /\ runHarm' = (runHarm \/ (~fast /\ wipe /\ LeftBehind(safe)))

\* a file is put into DOCS_DIR, taken out of it, or written to
RunAdd(n) ==
    /\ RunStep
    /\ ~runDocs[n].present
    /\ runDocs' = [runDocs EXCEPT ![n] = FirstFile]
    /\ UNCHANGED <<runDb, runLast, runCall, runHarm>>

RunRemove(n) ==
    /\ RunStep
    /\ runDocs[n].present
    /\ runDocs' = [runDocs EXCEPT ![n] = NoFile]
    /\ UNCHANGED <<runDb, runLast, runCall, runHarm>>

RunModify(n) ==
    /\ RunStep
    /\ n = F1
    /\ runDocs[n].present
    /\ runDocs[n].size < MaxSize
    /\ runDocs' = [runDocs EXCEPT ![n].size = @ + 1]
    /\ UNCHANGED <<runDb, runLast, runCall, runHarm>>

NextRuns ==
    \E n \in RunNames :
        \/ \E force \in BOOLEAN : RunBuild(n, force)
        \/ RunAdd(n)
        \/ RunRemove(n)
        \/ RunModify(n)

SpecRuns == InitRuns /\ [][NextRuns]_vars

(***************************************************************************)
(* server.py: sessions, the session lock and the index lock                *)
(***************************************************************************)
\* lines 125-127, the defaults
SESSION_TTL_MINUTES == 480

SESSION_IDLE_MINUTES == SESSION_TTL_MINUTES

SESSION_REMEMBER_MINUTES == 43200

\* the number of sessions created; the k-th secrets.token_urlsafe(32) is k
MaxSessions == 2

MaxSessReqs == 3

MaxClockMoves == 2

Sids == 1..MaxSessions

NoSession == [present |-> FALSE, expires_at |-> 0]

\* the cookie of a request is NoneArg or Given(session id)
NoSessReq == [kind |-> "none", cookie |-> NoneArg, bearer |-> FALSE, remember |-> FALSE]

\* history of the get_session (or create_session) call of a request: the
\* session id, whether a session was returned, whether its expires_at was at
\* or before the clock, whether the id had been found expired or logged out
\* before, and expires_at before and after the call
NoAuth ==
    [done |-> FALSE, sid |-> 0, ok |-> FALSE, expired |-> FALSE, dead |-> FALSE,
     out |-> FALSE, before |-> 0, after |-> 0]

\* all but the index lock and the variables of the sessions
sessOthers ==
    <<docs, events, db, catDb, pc, req, loc, resp, gh, lastCall, reqs,
      stemVars, idVars, manVars, snapVars, preVars, lsVars, ansVars, runVars>>

\* a session that counts as expired only after its expires_at
ExpiredLate(s, t) == s.expires_at < t

\* line 248
Expired(s, t) == s.expires_at <= t

\* a pop that leaves the table as it is
PoppedNot(tbl, sid) == tbl

\* lines 240 and 249: _sessions.pop(session_id, None)
Popped(tbl, sid) == [tbl EXCEPT ![sid] = NoSession]

\* lines 212-214: SessionData.touch
Touched(s, t) ==
    IF SESSION_IDLE_MINUTES > 0
    THEN [s EXCEPT !.expires_at = t + SESSION_IDLE_MINUTES]
    ELSE s

\* a `with _s_lock:` block that is left with the lock held
SLockKept(t) == t

\* the end of a `with _s_lock:` block
SLockLeft(t) == NoThread

InitSess ==
    /\ InitServerIdle
    /\ InitStemIdle
    /\ InitIdsIdle
    /\ InitManIdle
    /\ InitSnapIdle
    /\ InitPreIdle
    /\ InitListIdle
    /\ InitAnsIdle
    /\ InitRunIdle
    /\ now = 0
    /\ sessions = [i \in Sids |-> NoSession]
    /\ s_lock = NoThread
    /\ sPc = [t \in Threads |-> "idle"]
    /\ sReq = [t \in Threads |-> NoSessReq]
    /\ sAuth = [t \in Threads |-> NoAuth]
    /\ sDead = {}
    /\ sOut = {}
    /\ sCount = 0
    /\ sReqs = 0
    /\ sTicks = 0

SessGoto(t, at) == sPc' = [sPc EXCEPT ![t] = at]

\* a request arrives: /login, or /logout or /query with or without the
\* cookie and the service token
SessStart(t, r) ==
    /\ sPc[t] = "idle"
    /\ \A i, j \in 1..Len(ThreadOrder) :
          ThreadOrder[j] = t /\ i < j => sPc[ThreadOrder[i]] # "idle"
    /\ sReqs < MaxSessReqs
    /\ sReqs' = sReqs + 1
    /\ sReq' = [sReq EXCEPT ![t] = r]
    /\ SessGoto(t, IF r.kind = "login" THEN "l_verify" ELSE "a_user")
    /\ UNCHANGED <<now, sessions, s_lock, sAuth, sDead, sOut, sCount, sTicks,
                   lock, sessOthers>>

\* lines 302-310 and 221-232: the password is checked; create_session reads
\* the clock and draws the session id
LoginVerify(t) ==
    /\ sPc[t] = "l_verify"
    /\ \E ok \in BOOLEAN :
          IF ok /\ sCount < MaxSessions
          THEN /\ sCount' = sCount + 1
               /\ sAuth' = [sAuth EXCEPT ![t] =
                     [NoAuth EXCEPT
                        !.sid = sCount + 1,
                        !.after = now + (IF sReq[t].remember
                                         THEN SESSION_REMEMBER_MINUTES
                                         ELSE SESSION_TTL_MINUTES)]]
               /\ SessGoto(t, "c_lock")
          ELSE /\ SessGoto(t, "done")
               /\ UNCHANGED <<sCount, sAuth>>
    /\ UNCHANGED <<now, sessions, s_lock, sReq, sDead, sOut, sReqs, sTicks,
                   lock, sessOthers>>

\* a `with _s_lock:` is entered (lines 233, 239 and 244)
SLockEnter(t, from, to) ==
    /\ sPc[t] = from
    /\ s_lock = NoThread
    /\ s_lock' = t
    /\ SessGoto(t, to)
    /\ UNCHANGED <<now, sessions, sReq, sAuth, sDead, sOut, sCount, sReqs, sTicks,
                   lock, sessOthers>>

\* lines 233-235
CreateSession(t) ==
    /\ sPc[t] = "c_body"
    /\ sessions' = [sessions EXCEPT ![sAuth[t].sid] =
                       [present |-> TRUE, expires_at |-> sAuth[t].after]]
    /\ s_lock' = SLockLeft(t)
    /\ SessGoto(t, "done")
    /\ UNCHANGED <<now, sReq, sAuth, sDead, sOut, sCount, sReqs, sTicks,
                   lock, sessOthers>>

\* where the handler goes on with a Requester
SessHandler(t) ==
    IF sReq[t].kind = "query" THEN "q_lock"
    ELSE IF ~sReq[t].bearer /\ sReq[t].cookie.given THEN "o_lock"
    ELSE "done"

\* lines 283-293: the service token, then the cookie
RequireUser(t) ==
    /\ sPc[t] = "a_user"
    /\ SessGoto(t, IF sReq[t].bearer THEN SessHandler(t)
                   ELSE IF ~sReq[t].cookie.given THEN "done"
                   ELSE "g_lock")
    /\ UNCHANGED <<now, sessions, s_lock, sReq, sAuth, sDead, sOut, sCount, sReqs,
                   sTicks, lock, sessOthers>>

\* lines 245-252 and 294-297: get_session under the lock, and what
\* require_user makes of it
GetSession(t) ==
    /\ sPc[t] = "g_body"
    /\ LET sid == sReq[t].cookie.val
           s == sessions[sid]
           found == s.present /\ ~Expired(s, now)
           after == IF ~s.present THEN sessions
                    ELSE IF Expired(s, now) THEN Popped(sessions, sid)
                    ELSE [sessions EXCEPT ![sid] = Touched(s, now)]
       IN  /\ sessions' = after
           /\ sDead' = IF s.present /\ Expired(s, now) THEN sDead \cup {sid} ELSE sDead
           /\ sAuth' = [sAuth EXCEPT ![t] =
                 [done |-> TRUE, sid |-> sid, ok |-> found,
                  expired |-> s.present /\ s.expires_at <= now,
                  dead |-> sid \in sDead, out |-> sid \in sOut,
                  before |-> s.expires_at, after |-> after[sid].expires_at]]
           /\ SessGoto(t, IF found THEN SessHandler(t) ELSE "done")
    /\ s_lock' = SLockLeft(t)
    /\ UNCHANGED <<now, sReq, sOut, sCount, sReqs, sTicks, lock, sessOthers>>

\* lines 331-333 and 238-240: /logout removes the session of the cookie
RemoveSession(t) ==
    /\ sPc[t] = "o_body"
    /\ sessions' = Popped(sessions, sReq[t].cookie.val)
    /\ sOut' = sOut \cup {sReq[t].cookie.val}
    /\ s_lock' = SLockLeft(t)
    /\ SessGoto(t, "done")
    /\ UNCHANGED <<now, sReq, sAuth, sDead, sCount, sReqs, sTicks, lock, sessOthers>>

\* line 405 of /query: `with lock:` is entered
SessQueryLock(t) ==
    /\ sPc[t] = "q_lock"
    /\ LockFree(lock)
    /\ lock' = t
    /\ SessGoto(t, "q_body")
    /\ UNCHANGED <<now, sessions, s_lock, sReq, sAuth, sDead, sOut, sCount, sReqs,
                   sTicks, sessOthers>>

\* lines 406-438: the listing and the build, which call into rag.py and the
\* audit log only; the lock is released
SessQueryBuild(t) ==
    /\ sPc[t] = "q_body"
    /\ lock' = NoThread
    /\ SessGoto(t, "done")
    /\ UNCHANGED <<now, sessions, s_lock, sReq, sAuth, sDead, sOut, sCount, sReqs,
                   sTicks, sessOthers>>

\* the response is sent
SessFinish(t) ==
    /\ sPc[t] = "done"
    /\ SessGoto(t, "idle")
    /\ sReq' = [sReq EXCEPT ![t] = NoSessReq]
    /\ sAuth' = [sAuth EXCEPT ![t] = NoAuth]
    /\ UNCHANGED <<now, sessions, s_lock, sDead, sOut, sCount, sReqs, sTicks,
                   lock, sessOthers>>

\* time passes: a minute, the idle time or the remember-me time
ClockMoves(m) ==
    /\ sTicks < MaxClockMoves
    /\ sTicks' = sTicks + 1
    /\ now' = now + m
    /\ UNCHANGED <<sessions, s_lock, sPc, sReq, sAuth, sDead, sOut, sCount, sReqs,
                   lock, sessOthers>>

SessRequests ==
    [kind : {"login"}, cookie : {NoneArg}, bearer : {FALSE}, remember : BOOLEAN]
        \cup [kind : {"logout", "query"}, cookie : {NoneArg} \cup {Given(i) : i \in Sids},
              bearer : BOOLEAN, remember : {FALSE}]

NextSess ==
    \/ \E t \in Threads :
          \/ \E r \in SessRequests : SessStart(t, r)
          \/ LoginVerify(t)
          \/ SLockEnter(t, "c_lock", "c_body")
          \/ CreateSession(t)
          \/ RequireUser(t)
          \/ SLockEnter(t, "g_lock", "g_body")
          \/ GetSession(t)
          \/ SLockEnter(t, "o_lock", "o_body")
          \/ RemoveSession(t)
          \/ SessQueryLock(t)
          \/ SessQueryBuild(t)
          \/ SessFinish(t)
    \/ \E m \in {1, SESSION_IDLE_MINUTES, SESSION_REMEMBER_MINUTES} : ClockMoves(m)

SpecSess == InitSess /\ [][NextSess]_vars

(***************************************************************************)
(* Properties                                                              *)
(***************************************************************************)
\* the call of thread t has returned or raised, and its handler has not yet
\* taken over
AtDone(t) == pc[t] = "b_done"

\* the call of thread t is the second of two consecutive non-forced calls for
\* one file, the first of which found no index and built one, with the file
\* and the set of supported files unchanged since the first call began
SecondOfTwo(t) ==
    /\ AtDone(t)
    /\ req[t].kind = "query"
    /\ gh[t].quiet
    /\ gh[t].prev.file = req[t].file

C2_FastPathNeverStale ==
    \A t \in Threads :
        AtDone(t) /\ req[t].kind = "query" /\ loc[t].out = "loaded"
            => gh[t].hadEq /\ gh[t].retSrc = gh[t].statSrc

\* C3: a forced call that passes the check of the name never returns the
\* index on disk: it deletes the directory, invokes the loader once, and when
\* it returns the directory holds the complete index of what it loaded.
C3_ForcedRebuild ==
    \A t \in Threads :
        req[t].kind = "reload" =>
            /\ loc[t].out # "loaded"
            /\ pc[t] \in {"b_load", "b_persisting", "b_manifest"} => gh[t].deleted
            /\ AtDone(t) /\ loc[t].out = "built"
                  => /\ gh[t].deleted
                     /\ gh[t].loads = 1
                     /\ db[loc[t].safe].idx = "complete"
                     /\ db[loc[t].safe].src = loc[t].content

C3_Witness ==
    \E t \in Threads :
        /\ req[t].kind = "reload"
        /\ AtDone(t)
        /\ loc[t].out = "built"
        /\ gh[t].hadEq

\* C4: a rebuild that fails leaves no manifest.json in the directory, and a
\* non-forced call never returns a partly written index.
C4_NoPartialIndexReturned ==
    \A t \in Threads :
        /\ AtDone(t) /\ req[t].kind \in {"query", "reload"}
                     /\ loc[t].out = "Exception"
              => db[loc[t].safe].man.st = "missing"
        /\ AtDone(t) /\ req[t].kind = "query" /\ loc[t].out = "loaded"
              => gh[t].retIdx = "complete"

\* C5: a non-forced call that finds the directory non-empty and its manifest
\* missing or not readable does not return the index on disk.
C5_UnreadableManifestRebuilds ==
    \A t \in Threads :
        AtDone(t) /\ req[t].kind = "query" /\ gh[t].unreadable
            => loc[t].out # "loaded"

\* C6: the retrieval of a query reads a complete index, never a directory
\* that a rebuild has deleted or has partly written.
C6_RetrievalReadsCompleteIndex ==
    \A t \in Threads : gh[t].readIdx \in {"unread", "complete"}

\* a build-or-load call of thread t is in progress
InBuild(t) ==
    pc[t] \in {"b_validate", "b_ident", "b_stat", "b_branch", "b_load",
               "b_persisting", "b_manifest", "c_build", "b_done"}

\* C7: every build-or-load call, of a file or of the category, runs while its
\* thread holds the lock, so no two are in progress at once.
C7_BuildsHoldLock ==
    /\ \A t \in Threads : InBuild(t) => lock = t
    /\ Cardinality({t \in Threads : InBuild(t)}) <= 1

C7_Witness ==
    \E t, u \in Threads :
        /\ InBuild(t)
        /\ pc[t] # "b_done"
        /\ pc[u] \in {"q_lock", "r_lock"}

\* C8: a call for a name that is not in the supported-file list raises the
\* not-found error before it creates, deletes or writes anything under the
\* index root.
C8_NotFoundBeforeAnyWrite ==
    \A t \in Threads :
        gh[t].vfail =>
            /\ pc[t] \in {"b_done", "responded"}
            /\ loc[t].out = "ValueError"
            /\ ~gh[t].touched

C8_Witness ==
    \E t \in Threads :
        /\ gh[t].vfail
        /\ AtDone(t)
        /\ \E i \in DbIdents : db[i].exists

\* C9: a request whose file the build finds not to be a supported file is
\* answered 404.
C9_NotFoundIs404 ==
    \A t \in Threads :
        pc[t] = "responded" /\ gh[t].vfail => resp[t] = 404

\* C10: the result of _safe_stem holds only characters of [A-Za-z0-9._-], is
\* 3 to 100 characters long, and is "doc" when the cleaned name is shorter
\* than 3 characters.
C10_StemCharsAndLength ==
    stemDone =>
        /\ \A i \in 1..Len(stemOut) : IsSafeChar(stemOut[i])
        /\ Len(stemOut) >= 3
        /\ Len(stemOut) <= 100
        /\ Len(StemCleaned(fname)) < 3 => stemOut = <<"d", "o", "c">>

C10_Witness ==
    /\ stemDone
    /\ Len(StemCleaned(fname)) > 100
    /\ Len(stemOut) = 100

\* C11: the result of _safe_stem starts with an alphanumeric character and
\* ends with one, also when the cleaned name was cut at 100 characters.
C11_StemEdgesAlnum ==
    stemDone =>
        /\ IsAlnum(stemOut[1])
        /\ IsAlnum(stemOut[Len(stemOut)])

\* C12: the storage identifiers of two distinct supported files of one
\* directory are distinct, and computing them again over the same directory
\* gives the same identifiers.
C12_IdentifiersDistinct ==
    /\ idStage >= 1 =>
          \A f, g \in DOMAIN idOut : f # g => idOut[f] # idOut[g]
    /\ idStage = 2 => idAgain = idOut

\* C13: every storage identifier, with or without the collision suffix, is 3
\* to 100 characters long, holds only characters of [A-Za-z0-9._-], and
\* starts and ends with an alphanumeric character.
C13_IdentifierShape ==
    idStage >= 1 =>
        \A f \in DOMAIN idOut :
            /\ Len(idOut[f]) >= 3
            /\ Len(idOut[f]) <= 100
            /\ \A i \in 1..Len(idOut[f]) : IsSafeChar(idOut[f][i])
            /\ IsAlnum(idOut[f][1])
            /\ IsAlnum(idOut[f][Len(idOut[f])])

\* C14: for manifests with unique names, _manifests_equal(a, b) is true
\* exactly when a and b hold the same set of entries, in whatever order; it
\* is reflexive and symmetric.
C14_ManifestsEqualIsSetEquality ==
    manRes # <<>> =>
        /\ manRes.ab <=> (SeqSet(manA) = SeqSet(manB))
        /\ manRes.ab = manRes.ba
        /\ manRes.aa

C14_Witness ==
    /\ manRes # <<>>
    /\ manRes.ab
    /\ Len(manA) = 3
    /\ manA # manB

\* a file of the list is there at both computations and its size or its
\* modification time is not the same
SnapChanged ==
    \E f \in SeqSet(SnapFiles) :
        /\ snapBefore[f].present
        /\ snapAfter[f].present
        /\ \/ snapBefore[f].size # snapAfter[f].size
           \/ snapBefore[f].mtime # snapAfter[f].mtime

\* C15: two manifests computed for the same file list compare equal when no
\* file's state changed in between, and unequal when a file of the list
\* changed its size or its modification time.
C15_SnapshotsDetectChange ==
    snapRes # <<>> =>
        /\ snapBefore = snapAfter => snapRes.eq
        /\ SnapChanged => ~snapRes.eq

\* ceil(total / size) for size > 0
CeilDiv(total, size) ==
    CHOOSE n \in 0..total : n * size >= total /\ (n - 1) * size < total

\* the slice [(index-1)*size, min(total, index*size)) of the list
BatchSlice(files, size, index) ==
    LET lo == (index - 1) * size
        hi == Min(Len(files), index * size)
    IN  IF lo >= hi THEN <<>> ELSE SubSeq(files, lo + 1, hi)

\* the selections of the batches 1..k of the given size, one after the other
RECURSIVE BatchesUpTo(_, _, _)
BatchesUpTo(files, size, k) ==
    IF k = 0 THEN <<>>
    ELSE BatchesUpTo(files, size, k - 1)
           \o PreSelection(files, NoneArg, NoneArg, Given(size), Given(k)).sel

\* preindex_all is past its selection and the list was not empty
PreSelected == prePc # "start" /\ preTotal # <<>>

\* neither offset nor limit is given, batch_size and batch_index are
PreBatchMode ==
    /\ ~preArgs.offset.given
    /\ ~preArgs.limit.given
    /\ preArgs.batch_size.given
    /\ preArgs.batch_index.given

\* C16: for a non-empty list and every batch_size > 0, the selections for
\* batch_index = 1..ceil(total/batch_size), one after the other, are the list:
\* each is the contiguous slice of its index, non-empty and of at most
\* batch_size files.
C16_BatchesPartitionTheList ==
    PreSelected =>
        /\ \A size \in 1..(MaxArg + 1) :
              LET n == CeilDiv(Len(preTotal), size)
              IN  /\ BatchesUpTo(preTotal, size, n) = preTotal
                  /\ \A k \in 1..n :
                        LET r == PreSelection(preTotal, NoneArg, NoneArg,
                                              Given(size), Given(k))
                        IN  /\ r.report = "selected"
                            /\ r.sel # <<>>
                            /\ Len(r.sel) <= size
        /\ PreBatchMode /\ preReport = "selected"
              => preSel = BatchSlice(preTotal, preArgs.batch_size.val,
                                     preArgs.batch_index.val)

C16_Witness ==
    /\ PreSelected
    /\ PreBatchMode
    /\ prePc = "done"
    /\ preArgs.batch_index.val = 2
    /\ preSel # <<>>
    /\ Len(preSel) < preArgs.batch_size.val

PreNegativeLimit == preArgs.limit.given /\ preArgs.limit.val < 0

\* only one of batch_size and batch_index, one of them not positive, or a
\* batch_index beyond the number of batches
PreBadBatch ==
    LET bs == preArgs.batch_size
        bi == preArgs.batch_index
    IN  \/ bs.given /\ ~bi.given
        \/ bi.given /\ ~bs.given
        \/ bs.given /\ bs.val <= 0
        \/ bi.given /\ bi.val <= 0
        \/ /\ bs.given /\ bi.given /\ bs.val > 0
           /\ bi.val > CeilDiv(Len(preTotal), bs.val)

PreRejected ==
    /\ preReport \in {"error_limit", "error_pair", "error_positive", "error_range"}
    /\ preTried = <<>>

\* C17 as stated: for every file list, a negative limit or malformed batch
\* parameters give a validation error and no build.
C17_BadArgsRejected ==
    prePc # "start" /\ (PreNegativeLimit \/ PreBadBatch) => PreRejected

\* C17 as amended: for a non-empty list, a negative limit gives a validation
\* error and no build, and so do malformed batch parameters when neither
\* offset nor limit is given.
C17_BadArgsRejectedInTheirMode ==
    /\ PreSelected
    /\ \/ PreNegativeLimit
       \/ ~preArgs.offset.given /\ ~preArgs.limit.given /\ PreBadBatch
    => PreRejected

C17_Witness ==
    /\ PreSelected
    /\ prePc = "done"
    /\ Len(preTotal) >= 2
    /\ preReport = "error_range"

\* C18: with offset or limit given (and the limit not negative), a negative
\* or absent offset counts as 0, the selection is files[offset : offset+limit]
\* (files[offset:] without a limit), and an empty selection, as for an offset
\* at or beyond the end of the list, is reported without an error or a build.
C18_OffsetLimitSelection ==
    /\ PreSelected
    /\ preArgs.offset.given \/ preArgs.limit.given
    /\ ~PreNegativeLimit
    => LET off == IF preArgs.offset.given /\ preArgs.offset.val > 0
                  THEN preArgs.offset.val ELSE 0
           n == Len(preTotal)
           hi == IF preArgs.limit.given THEN Min(n, off + preArgs.limit.val) ELSE n
           expected == IF off >= hi THEN <<>> ELSE SubSeq(preTotal, off + 1, hi)
       IN  /\ preSel = expected
           /\ expected # <<>> => preReport = "selected"
           /\ expected = <<>> => preReport = "empty" /\ preTried = <<>>
           /\ off >= n => expected = <<>>

C18_Witness ==
    /\ PreSelected
    /\ prePc = "done"
    /\ preArgs.offset.given
    /\ preArgs.offset.val < 0
    /\ preArgs.limit.given
    /\ preReport = "selected"
    /\ Len(preSel) < Len(preTotal)

\* C19: with offset or limit given the selection is by offset/limit and does
\* not depend on batch_size and batch_index; with neither given and a batch
\* parameter given it is by batch; with none of the four given it is the
\* whole list.
C19_ModePrecedence ==
    PreSelected =>
        /\ preArgs.offset.given \/ preArgs.limit.given
              => /\ preReport \in {"selected", "empty", "error_limit"}
                 /\ \A b1, b2 \in ArgValues :
                       LET r == PreSelection(preTotal, preArgs.offset,
                                             preArgs.limit, b1, b2)
                       IN  r.report = preReport /\ r.sel = preSel
        /\ PreBatchMode /\ preReport \in {"selected", "empty"}
              => preSel = BatchSlice(preTotal, preArgs.batch_size.val,
                                     preArgs.batch_index.val)
        /\ /\ ~preArgs.offset.given /\ ~preArgs.limit.given
           /\ preArgs.batch_size.given \/ preArgs.batch_index.given
           => preReport \in {"selected", "error_pair", "error_positive", "error_range"}
        /\ /\ ~preArgs.offset.given /\ ~preArgs.limit.given
           /\ ~preArgs.batch_size.given /\ ~preArgs.batch_index.given
           => preReport = "selected" /\ preSel = preTotal

C19_Witness ==
    /\ PreSelected
    /\ prePc = "done"
    /\ preArgs.limit.given
    /\ preArgs.batch_size.given
    /\ ~preArgs.batch_index.given
    /\ preReport = "selected"

\* C20: the builds are attempted for the selected files in list order, each
\* once, a failure does not stop the loop, and at the end successes plus
\* recorded failures are as many as the selected files.
C20_EveryFileAttempted ==
    /\ Len(preTried) <= Len(preSel)
    /\ preTried = SubSeq(preSel, 1, Len(preTried))
    /\ preSuccess + Len(preFailed) = Len(preTried)
    /\ prePc \in {"report", "done"} /\ preReport = "selected"
          => /\ preTried = preSel
             /\ preSuccess + Len(preFailed) = Len(preSel)

C20_Witness ==
    /\ prePc = "done"
    /\ Len(preSel) >= 3
    /\ preFailed # <<>>
    /\ preFailed[1] = preSel[1]
    /\ preSuccess >= 1

(***************************************************************************)
(* C21: the list _supported_files returns is sorted and holds exactly the  *)
(* directory entries whose name has no ":", does not end with              *)
(* "Zone.Identifier" and ends, in any letter case, with .txt, .pdf or .md; *)
(* /query, /reload and /doc accept, and index, such entries only.          *)
(***************************************************************************)
NamedAsDocument(n) ==
    /\ \A i \in 1..Len(n) : n[i] # ":"
    /\ ~(Len(n) >= 15 /\ SubSeq(n, Len(n) - 14, Len(n)) = ZoneIdentifier)
    /\ \/ /\ Len(n) >= 4
          /\ Lower(SubSeq(n, Len(n) - 3, Len(n)))
                \in {<<".", "t", "x", "t">>, <<".", "p", "d", "f">>}
       \/ /\ Len(n) >= 3
          /\ Lower(SubSeq(n, Len(n) - 2, Len(n))) = <<".", "m", "d">>

C21_OnlySupportedNamesServed ==
    lsReq.kind # "none" =>
        /\ \A i, j \in 1..Len(lsOut.files) :
              i < j => StrLess(lsOut.files[i], lsOut.files[j])
        /\ \A n \in ListPool \cup {lsOut.name} :
              InSeq(n, lsOut.files) <=> (n \in lsEntries /\ NamedAsDocument(n))
        /\ (lsReq.kind # "files" /\ (lsOut.indexed \/ lsOut.status \in {200, 500}))
              => (lsOut.name \in lsEntries /\ NamedAsDocument(lsOut.name))

\* a directory with side-car files, an unsupported file and upper-case
\* extensions, and a request for the unsupported file
C21_Witness ==
    /\ lsReq.kind \in {"query", "reload", "doc"}
    /\ lsOut.name = Exe
    /\ lsOut.status = 404
    /\ ~lsOut.indexed
    /\ {Exe, Art, ZoneA, ZoneB, PdfB, MdUp, F1} \subseteq lsEntries
    /\ lsOut.files = <<MdUp, F1, PdfB>>


(***************************************************************************)
(* C22: the sources of a response are the non-empty source names of the    *)
(* retrieved chunks, each once, in the order of their first occurrence.    *)
(***************************************************************************)
FirstChunkOf(src) ==
    CHOOSE k \in 1..Len(ansDocs) :
        /\ ansDocs[k].source = src
        /\ \A j \in 1..(k - 1) : ansDocs[j].source # src

C22_SourcesOnceInFirstSeenOrder ==
    ansOut.done =>
        LET S == ansOut.sources
        IN  /\ \A i \in 1..Len(S) :
                  S[i] # "" /\ \E k \in 1..Len(ansDocs) : ansDocs[k].source = S[i]
            /\ \A k \in 1..Len(ansDocs) :
                  ansDocs[k].source # "" => InSeq(ansDocs[k].source, S)
            /\ \A i, j \in 1..Len(S) :
                  i < j => S[i] # S[j] /\ FirstChunkOf(S[i]) < FirstChunkOf(S[j])

\* chunks of two sources, one of them met again after the other, and a chunk
\* without a source
C22_Witness ==
    /\ ansOut.done
    /\ ansOut.sources = <<"B", "A">>
    /\ Len(ansDocs) >= 4
    /\ ansDocs[1].source = "B"
    /\ \E k \in 1..Len(ansDocs) : ansDocs[k].source = ""
    /\ \E j, k \in 1..Len(ansDocs) :
          j < k /\ ansDocs[j].source = "A" /\ ansDocs[k].source = "B"


(***************************************************************************)
(* C23: with snippets requested, the first max(5, top_k) chunks are        *)
(* considered; each source has at most one snippet, taken from its first   *)
(* considered chunk whose text is not blank; the snippet is that text      *)
(* without outer whitespace, every run of whitespace made one space, and,  *)
(* when that is longer than 700 characters, its first 700 characters       *)
(* without trailing whitespace, followed by an ellipsis; every snippet     *)
(* source is among the sources.                                            *)
(***************************************************************************)
Considered ==
    LET k == IF ansReq.top_k.given THEN ansReq.top_k.val ELSE 3
        limit == IF k > 5 THEN k ELSE 5
    IN  1..(IF Len(ansDocs) < limit THEN Len(ansDocs) ELSE limit)

Usable(k) ==
    /\ ansDocs[k].source # ""
    /\ \E i \in 1..Len(ansDocs[k].content) : ~IsSpace(ansDocs[k].content[i])

\* the snippet holds single spaces only, none at its ends, and the other
\* characters of the text in their order (all of them when nothing is cut)
SpacedOnce(text, snippet) ==
    LET cut == snippet[Len(snippet)] = Ellipsis
        body == IF cut THEN SubSeq(snippet, 1, Len(snippet) - 1) ELSE snippet
        letters(w) == SelectSeq(w, LAMBDA c : ~IsSpace(c))
    IN  /\ body # <<>>
        /\ ~IsSpace(body[1]) /\ ~IsSpace(body[Len(body)])
        /\ \A i \in 2..Len(body) :
              IsSpace(body[i]) => body[i] = " " /\ ~IsSpace(body[i - 1])
        /\ IF cut
           THEN SubSeq(letters(text), 1, Len(letters(body))) = letters(body)
           ELSE letters(text) = letters(body) /\ Len(body) <= SnippetMax

\* the cut as line 475 makes it, and the cut without the rstrip
CutAndTrimmed(clean) == RStrip(SubSeq(clean, 1, SnippetMax)) \o <<Ellipsis>>

CutAtLimit(clean) == SubSeq(clean, 1, SnippetMax) \o <<Ellipsis>>

SnippetsFollow(Cut(_)) ==
    (ansOut.done /\ ansReq.include_snippets) =>
        LET N == ansOut.snippets
            First(src) ==
                {k \in Considered :
                    /\ Usable(k) /\ ansDocs[k].source = src
                    /\ \A j \in Considered :
                          j < k => ~(Usable(j) /\ ansDocs[j].source = src)}
        IN  /\ \A i, j \in 1..Len(N) : i < j => N[i].source # N[j].source
            /\ \A i \in 1..Len(N) :
                  /\ InSeq(N[i].source, ansOut.sources)
                  /\ \E k \in First(N[i].source) :
                        LET clean == CollapseSpaces(Strip(ansDocs[k].content))
                        IN  /\ N[i].snippet =
                                  IF Len(clean) > SnippetMax THEN Cut(clean) ELSE clean
                            /\ SpacedOnce(ansDocs[k].content, N[i].snippet)
            /\ \A k \in Considered :
                  Usable(k) => \E i \in 1..Len(N) : N[i].source = ansDocs[k].source
            /\ \A k \in 1..Len(ansDocs) :
                  (k \notin Considered /\ \A j \in Considered : ~Usable(j) \/
                                             ansDocs[j].source # ansDocs[k].source)
                     => \A i \in 1..Len(N) : N[i].source # ansDocs[k].source

\* C23 as stated: a long snippet is the first 700 characters and an ellipsis
C23_SnippetsCutAtLimit == SnippetsFollow(CutAtLimit)

\* C23 with the cut the code makes
C23_SnippetsCutAndTrimmed == SnippetsFollow(CutAndTrimmed)

\* a snippet whose 700th character was a space
C23_Witness ==
    /\ ansOut.done
    /\ ansReq.include_snippets
    /\ \E i \in 1..Len(ansOut.snippets) :
          LET t == ansOut.snippets[i].snippet
          IN  Len(t) = SnippetMax /\ t[Len(t)] = Ellipsis

(***************************************************************************)
(* C24: adding or removing another supported file with the same stem       *)
(* changes the identifier of a file; the next non-forced call for the file *)
(* resolves another directory and rebuilds; the directory of the earlier   *)
(* index stays as it is.                                                   *)
(***************************************************************************)
\* the last call was not forced and resolved another identifier than the one
\* the file's last returned index is under
MovedCall ==
    /\ runCall.out \in {"loaded", "built", "Exception"}
    /\ ~runCall.force
    /\ runCall.prev \notin {<<>>, runCall.safe}

\* the identifier of f with n in DOCS_DIR differs from the one without n
IdDiffers(f, n) ==
    RunIdOf[RunListing \cup {n}][f] # RunIdOf[RunListing \ {n}][f]

C25_LocksNeverNested ==
    \A t \in Threads :
        /\ ~(s_lock = t /\ lock = t)
        /\ sPc[t] \in {"q_lock", "q_body"} => s_lock # t
        /\ s_lock = t => sPc[t] \in {"c_body", "g_body", "o_body"}
        /\ lock = t => sPc[t] = "q_body"

\* one thread, authenticated by its session, builds under the index lock
\* while the other one is inside a session operation
C25_Witness ==
    \E t, u \in Threads :
        /\ lock = t
        /\ sAuth[t].ok
        /\ s_lock = u
        /\ sPc[u] \in {"g_body", "o_body"}

(***************************************************************************)
(* C26: a lookup of a session whose expires_at is at or before the clock   *)
(* returns no session and takes it out of the table, and no later lookup   *)
(* of that session id returns a session.                                   *)
(***************************************************************************)
C26_ExpiredNeverAuthenticates ==
    /\ \A t \in Threads :
          (sAuth[t].done /\ (sAuth[t].expired \/ sAuth[t].dead)) => ~sAuth[t].ok
    /\ \A i \in sDead : ~sessions[i].present

\* a lookup at the very minute of expires_at, and a later lookup of an id
\* that was found expired before
C26_Witness ==
    \E t \in Threads :
        /\ sAuth[t].done
        /\ sAuth[t].dead
        /\ ~sAuth[t].ok
        /\ now = SESSION_IDLE_MINUTES

(***************************************************************************)
(* C27: once /logout has removed the session of the cookie, its id is not  *)
(* in the table and no lookup of it returns a session.                     *)
(***************************************************************************)
C27_LoggedOutStaysOut ==
    /\ \A t \in Threads : (sAuth[t].done /\ sAuth[t].out) => ~sAuth[t].ok
    /\ \A i \in sOut : ~sessions[i].present

\* a request that carries the id of a session that was logged out
C27_Witness ==
    \E t \in Threads :
        /\ sAuth[t].done
        /\ sAuth[t].out
        /\ ~sAuth[t].dead
        /\ ~sAuth[t].ok
        /\ sCount >= 1

(***************************************************************************)
(* C28: a get_session that returns a session leaves its expires_at at or   *)
(* after what it was before the call.                                      *)
(***************************************************************************)
C28_ExpiryNeverMovesBack ==
    \A t \in Threads : (sAuth[t].done /\ sAuth[t].ok) => sAuth[t].after >= sAuth[t].before


=============================================================================
